---- MODULE Spec2Model ----
(***************************************************************************)
(* A model of the SFU core of rheomesh (h3poteto/streamsphere):            *)
(*   - the Router event loop and its publisher map (sfu/src/router.rs),    *)
(*   - PublishTransport: on_track, publish (sfu/src/publish_transport.rs), *)
(*   - SubscribeTransport: subscribe, set_answer, negotiation-needed       *)
(*     (sfu/src/subscribe_transport.rs),                                   *)
(*   - the pending ICE candidate buffers of both transports,               *)
(*   - the forwarding loops (sfu/src/media_track.rs, sfu/src/subscriber.rs,*)
(*     sfu/src/data_subscriber.rs).                                        *)
(* Every task is modelled at the granularity of its suspension points and  *)
(* of its accesses to shared state: tasks run on a multi-threaded runtime, *)
(* so two accesses of one task are separate steps.                         *)
(***************************************************************************)
EXTENDS Integers, Sequences, FiniteSets, TLC

\* ---------------------------------------------------------------- bounds
MaxPubs == 2
MaxCallers == 2
MaxPublishTransports == 2
MaxSubscribes == 2
MaxNegotiations == 1
MaxAnswers == 2
MaxCandidates == 2
MaxSubscribers == 2
MaxDataSubscribers == 1
MaxQueue == 1
MaxPackets == 3
MaxTimestamp == 3
MaxBuffered == 2
MaxRtcp == 2
MaxSsrc == 2
TickSeconds == 10
MaxElapsed == 30
MaxSections == 2
MaxExtmaps == 2
MaxExtId == 3
MaxMessages == 3
MaxDataPubs == 2
MaxSent == 4
MaxListed == 3
MaxDataLoops == 2

Pubs == 1..MaxPubs
Callers == 1..MaxCallers
PTs == 1..MaxPublishTransports
TrackIds == {"v1", "v2"}
SubCalls == 1..MaxSubscribes
NNs == 1..MaxNegotiations
Cands == 1..MaxCandidates
IceTrs == {"pub", "sub"}
RtpKids == 1..MaxSubscribers
DataKids == 1..MaxDataSubscribers

VARIABLES
    \* Router
    events,          \* the Router's unbounded mpsc event channel (FIFO)
    publishers,      \* Router.publishers: HashMap track-id -> Publisher
    lastProcessed,   \* history: the event the Router's loop handled last
    \* PublishTransport(s)
    pubTr,           \* the PublishTransport that raised on_track for p
    pubId,           \* track.id() of publisher p
    otPc,            \* position of the on_track handler of p
    onTrackLock,     \* holder of on_track_fn's mutex, per transport
    ingress,         \* the RTP ingress loop of p
    published,       \* unread announcements of published_receiver, per transport
    recvLock,        \* holder of published_receiver's mutex, per transport
    pbPc,            \* position of publish() call c
    pbTr,            \* the transport publish() call c was made on
    pbWant,          \* track_id argument of publish() call c
    pbGot,           \* the Publisher returned to publish() call c
    sentLog,         \* history: TrackPublished/TrackRemoved events as sent
    \* SubscribeTransport: signalling
    signaling_pending, \* the AtomicBool of the transport
    sbPc,            \* position of subscribe() call s
    sbWant,          \* publisher_id argument of subscribe() call s
    sbReply,         \* the Router's reply to the GetPublisher of call s
    sbReplied,       \* whether that reply has been sent
    sbResult,        \* what subscribe() call s returned
    attached,        \* subscribe() calls whose add_track succeeded
    nnPc,            \* position of negotiation-needed callback n
    nnLock,          \* holder of on_negotiation_needed_fn's mutex
    nnOffers,        \* offers callback n passed to the user's handler
    saPc,            \* position of the set_answer() call in progress
    saCalls,         \* set_answer() calls made so far
    saResult,        \* what the last finished set_answer() returned
    saAfterOffer,    \* history: a subscribe() had returned an offer when
                     \* the current (or last) set_answer() was called
    pcState,         \* the subscribing peer connection: open | closed | dropped
    \* history of the signalling
    inflight,        \* offers generated since the last set_answer() returned Ok
    sbAbsent,        \* id was not in the map when GetPublisher of s was handled
    sbClaimed,       \* subscribe() call s has stored true to signaling_pending
    claimedSinceAnswer, \* a store of true followed the last store of false
    nnFiredPending,  \* signaling_pending was true when callback n fired
    nnCleared,       \* set_answer stored false after callback n fired
    \* pending ICE candidates of a PublishTransport and a SubscribeTransport
    remoteDesc,      \* peer_connection.remote_description().is_some()
    pending_candidates, \* the Vec behind the mutex
    candLock,        \* holder of pending_candidates' mutex
    pcCands,         \* how often each candidate was passed to the peer connection
    icePc,           \* position of add_ice_candidate() call i
    iceTr,           \* the transport of add_ice_candidate() call i
    iceResult,       \* what add_ice_candidate() call i returned
    gaPc,            \* position of the get_answer() call in progress
    gaCalls,         \* get_answer() calls made so far
    gaResult,        \* what the last finished get_answer() returned
    answerOps,       \* the calls the current get_answer()/set_answer() has made, per transport
    \* forwarding loops
    mtIngress,       \* MediaTrack::rtp_event_loop of p: running | ended
    mtHeld,          \* an Arc<MediaTrack> of p (and its rtp_sender) is alive
    rkPc,            \* position of the RTP writer task of subscriber k
    rkPub,           \* the publisher subscriber k is attached to
    rtpQueue,        \* unread packets of k's broadcast::Receiver<Packet>
    dkPc,            \* position of the data loop of DataSubscriber d
    dataQueue,       \* unread messages of d's broadcast receiver
    dkClosed,        \* unread messages of d's own subscriber_closed channel
    dkCloseCalled,   \* DataSubscriber::close has been called on d
    closedChan,      \* unread messages of the transport's closed channel
    closedLock,      \* holder of the transport's closed_receiver mutex
    \* the packets of one publisher on their way to its subscribers
    mtRead,          \* timestamps of the packets read by the ingress loop, in order
    mtLast,          \* last_timestamp of MediaTrack::rtp_event_loop
    mtLoop,          \* that ingress loop: running | ended | panicked
    rsPc,            \* position of the RTP writer loop of subscriber k
    rsBuf,           \* packets waiting in k's broadcast::Receiver<Packet>
    rsLag,           \* k's receiver has lost packets it had not read
    rsCurr,          \* curr_timestamp of k's rtp_event_loop
    rsOut,           \* packets written to k's egress track, in order
    \* the RTCP feedback of one subscriber on its way to the publisher
    reLoop,          \* the subscriber's rtcp_event_loop: running or ended
    reIn,            \* the RTCP packets that loop has read, in order
    reLost,          \* the packets read whose send on the channel failed
    elapsed,         \* whole seconds since the loop took start_timestamp
    mediaType,       \* detect_mime_type(mime_type) of the subscribed track
    mediaSsrc,       \* media_track.track.ssrc()
    ptChan,          \* the queue of the publisher's RTCP channel
    ptWritten,       \* the packets passed to pc.write_rtcp
    ptStop,          \* the messages queued on the stop channel
    ptClosed,        \* PublishTransport::close has been called
    ptHandle,        \* the PublishTransport value still exists
    wlPc,            \* the RTCP writer loop: select or stopped
    \* the local offer create_offer passes through adjust_extmap
    exIn,            \* the media sections of the offer parsed from the local description
    exMap,           \* the reply to GetPublishersExtmap: track id to header extensions
    exOut,           \* the media sections of the offer returned
    exDone,          \* adjust_extmap has returned
    \* one DataSubscriber loop between its source and its egress data channel
    dpAlive,         \* the source DataPublisher and its data channel still exist
    dpSent,          \* the number of messages the source channel has delivered
    dsPc,            \* the DataSubscriber task: none, select or done
    dsQueue,         \* the messages waiting in the loop's broadcast receiver
    dsLag,           \* that receiver has lost messages it had not read
    dcState,         \* ready_state() of the egress data channel
    dsSent,          \* the messages passed to data_channel.send, in order
    dsSkipped,       \* the messages received while the channel was not open
    dsTransportClosed, \* messages queued on the transport's closed channel
    dsSubClosed,     \* messages queued on the subscriber's closed channel
    dsCloseCalled,   \* DataSubscriber::close has been called
    \* the Router's data publishers and the callers waiting for its replies
    rdEvents,        \* the queue of RouterEvent of the data channels and callers
    data_publishers, \* the keys of Router.data_publishers
    rdLoop,          \* router_event_loop: running or ended
    rdClosed,        \* Router::close has been called
    dcLife,          \* each published data channel: new, open or closed
    ohPc,            \* each channel's on_open handler
    dcOnClose,       \* the channel has its on_close handler registered
    rdDone,          \* the kinds of event the Router has handled for each channel
    scPc,            \* each subscribing call: idle, wait, ok, error or panic
    scKind,          \* subscribe or data_subscribe
    scWant,          \* the id the call asks for
    scReply,         \* the state of the call's oneshot reply channel
    \* the Router's event loop with the events sent to it
    rlSent,          \* history: every event sent on the Router's channel, in order
    rlQueue,         \* the events waiting in the channel, as positions in rlSent
    rlMap,           \* Router.publishers as this loop keeps it
    rlApplied,       \* history: the positions of the events the loop has handled
    rlReply,         \* the replies sent on the oneshot channels, by position of the request
    rlLoop,          \* router_event_loop: running or ended
    \* one offer on its way to the application
    hoPath,          \* the function making the offer: subscribe | data_subscribe | negotiation_needed
    hoAt,            \* position in that function's steps, 0 before the call
    hoRaw,           \* the offer peer_connection.create_offer returned
    hoOffer,         \* the local variable offer
    hoLocal,         \* the peer connection's local description
    hoReply,         \* the reply to GetPublishersExtmap
    hoFetched,       \* whether that reply has been received
    hoHanded,        \* the offers returned or passed to the handler
    hoEnd,           \* how the function ended
    \* one rewrite against a publisher's list with repeated URIs
    fdIn,            \* the media section before the rewrite
    fdList,          \* the publisher's header extensions
    fdOut,           \* the media section after the rewrite
    fdDone,          \* whether the rewrite has run
    \* a data_subscribe() call on the SubscribeTransport
    dqPc,            \* position of the data_subscribe() call
    dqResult,        \* what data_subscribe() returned
    dqOffers,        \* offers data_subscribe() has returned
    \* the data loops of two DataSubscribers with different sources
    dlPc,            \* position of each loop
    dlQueue,         \* messages buffered in each loop's broadcast receiver
    dlClosed,        \* values in each subscriber's own closed channel
    dlTransportClosed, \* values in the transport's closed channel
    dlGuard          \* the loops holding the guard of transport_closed

routerVars == <<events, publishers, lastProcessed>>
pubVars == <<pubTr, pubId, otPc, onTrackLock, ingress, published, recvLock,
             pbPc, pbTr, pbWant, pbGot, sentLog>>
sigVars == <<signaling_pending, sbPc, sbWant, sbReply, sbReplied, sbResult,
             attached, nnPc, nnLock, nnOffers, saPc, saCalls, saResult,
             saAfterOffer, pcState, inflight, sbAbsent, sbClaimed, claimedSinceAnswer,
             nnFiredPending, nnCleared>>
iceVars == <<remoteDesc, pending_candidates, candLock, pcCands, icePc, iceTr,
             iceResult, gaPc, gaCalls, gaResult, answerOps>>
fwdVars == <<mtIngress, mtHeld, rkPc, rkPub, rtpQueue, dkPc, dataQueue,
             dkClosed, dkCloseCalled, closedChan, closedLock>>
pipeVars == <<mtRead, mtLast, mtLoop, rsPc, rsBuf, rsLag, rsCurr, rsOut>>
rtcpVars == <<reLoop, reIn, reLost, elapsed, mediaType, mediaSsrc, ptChan,
              ptWritten, ptStop, ptClosed, ptHandle, wlPc>>
offerVars == <<exIn, exMap, exOut, exDone>>
dataVars == <<dpAlive, dpSent, dsPc, dsQueue, dsLag, dcState, dsSent,
              dsSkipped, dsTransportClosed, dsSubClosed, dsCloseCalled>>
rdVars == <<rdEvents, data_publishers, rdLoop, rdClosed, dcLife, ohPc,
            dcOnClose, rdDone, scPc, scKind, scWant, scReply>>
loopVars == <<rlSent, rlQueue, rlMap, rlApplied, rlReply, rlLoop>>
handVars == <<hoPath, hoAt, hoRaw, hoOffer, hoLocal, hoReply, hoFetched,
              hoHanded, hoEnd>>
dupVars == <<fdIn, fdList, fdOut, fdDone>>
dsigVars == <<dqPc, dqResult, dqOffers>>
peerVars == <<dlPc, dlQueue, dlClosed, dlTransportClosed, dlGuard>>
\* the state of the components modelled further down
auxVars == <<pipeVars, rtcpVars, offerVars, dataVars, rdVars, loopVars,
             handVars, dupVars, dsigVars, peerVars>>
vars == <<routerVars, pubVars, sigVars, iceVars, fwdVars, auxVars>>
\* what the actions of one component leave alone
xPub == <<sigVars, iceVars, fwdVars, auxVars>>
xSig == <<pubVars, iceVars, fwdVars, auxVars>>
xIce == <<routerVars, pubVars, fwdVars, auxVars>>
xFwd == <<routerVars, pubVars, iceVars, auxVars>>
\* what the actions of a later component leave alone
coreVars == <<routerVars, pubVars, sigVars, iceVars, fwdVars>>
xPipe == <<coreVars, rtcpVars, offerVars, dataVars, rdVars, loopVars, handVars, dupVars, dsigVars, peerVars>>
xRtcp == <<coreVars, pipeVars, offerVars, dataVars, rdVars, loopVars, handVars, dupVars, dsigVars, peerVars>>
xOffer == <<coreVars, pipeVars, rtcpVars, dataVars, rdVars, loopVars, handVars, dupVars, dsigVars, peerVars>>
xData == <<coreVars, pipeVars, rtcpVars, offerVars, rdVars, loopVars, handVars, dupVars, dsigVars, peerVars>>
xRd == <<coreVars, pipeVars, rtcpVars, offerVars, dataVars, loopVars, handVars, dupVars, dsigVars, peerVars>>
xLoop == <<coreVars, pipeVars, rtcpVars, offerVars, dataVars, rdVars, handVars, dupVars, dsigVars, peerVars>>
xHand == <<coreVars, pipeVars, rtcpVars, offerVars, dataVars, rdVars, loopVars, dupVars, dsigVars, peerVars>>
xDup == <<coreVars, pipeVars, rtcpVars, offerVars, dataVars, rdVars, loopVars, handVars, dsigVars, peerVars>>
xDsig == <<coreVars, pipeVars, rtcpVars, offerVars, dataVars, rdVars, loopVars, handVars, dupVars, peerVars>>
xPeer == <<coreVars, pipeVars, rtcpVars, offerVars, dataVars, rdVars, loopVars, handVars, dupVars, dsigVars>>

\* ------------------------------------------------------------ RouterEvent
NoId == "-"
RouterEvent(kind, pub, id, reply) ==
    [kind |-> kind, pub |-> pub, id |-> id, reply |-> reply]
TrackPublished(p) == RouterEvent("TrackPublished", p, pubId[p], 0)
TrackRemoved(id) == RouterEvent("TrackRemoved", 0, id, 0)
GetPublisher(id, s) == RouterEvent("GetPublisher", 0, id, s)
NoEvent == RouterEvent("none", 0, NoId, 0)

\* Option<Arc<Publisher>>
Some(p) == [some |-> TRUE, val |-> p]
None == [some |-> FALSE, val |-> 0]

\* ------------------------------------------------------------------ Router
EmptyMap == [i \in {} |-> 0]

\* r.publishers.insert(track_id, publisher)
RouterInsert(m, id, p) ==
    [i \in (DOMAIN m) \cup {id} |-> IF i = id THEN p ELSE m[i]]

\* a Router that keeps the entry
RouterRemove_Keep(m, id) == m

\* r.publishers.remove(&track_id)
RouterRemove(m, id) == [i \in (DOMAIN m) \ {id} |-> m[i]]

\* a Router that answers Some for an id it does not hold
RouterGet_Any(m, id) == IF id \in DOMAIN m THEN Some(m[id]) ELSE Some(0)

\* r.publishers.get(&track_id).cloned()
RouterGet(m, id) == IF id \in DOMAIN m THEN Some(m[id]) ELSE None

\* Router::publisher_ids
publisher_ids == DOMAIN publishers

RouterInit ==
    /\ events = <<>>
    /\ publishers = EmptyMap
    /\ lastProcessed = NoEvent

\* the arms TrackPublished and TrackRemoved of router_event_loop
RouterApply(m, e) ==
    IF e.kind = "TrackPublished" THEN RouterInsert(m, e.id, e.pub)
    ELSE IF e.kind = "TrackRemoved" THEN RouterRemove(m, e.id)
    ELSE m

\* one iteration of router_event_loop: the oldest event is received and
\* handled; GetPublisher answers on its oneshot reply channel
RouterStep ==
    /\ events # <<>>
    /\ LET e == Head(events) IN
        /\ events' = Tail(events)
        /\ lastProcessed' = e
        /\ IF e.kind = "GetPublisher"
           THEN /\ sbReply' = [sbReply EXCEPT
                                  ![e.reply] = RouterGet(publishers, e.id)]
                /\ sbReplied' = [sbReplied EXCEPT ![e.reply] = TRUE]
                /\ sbAbsent' = [sbAbsent EXCEPT
                                  ![e.reply] = e.id \notin publisher_ids]
                /\ UNCHANGED publishers
           ELSE /\ publishers' = RouterApply(publishers, e)
                /\ UNCHANGED <<sbReply, sbReplied, sbAbsent>>
    /\ UNCHANGED <<signaling_pending, sbPc, sbWant, sbResult, attached, nnPc,
                   nnLock, nnOffers, saPc, saCalls, saResult, saAfterOffer, pcState,
                   inflight, sbClaimed, claimedSinceAnswer, nnFiredPending,
                   nnCleared>>
    /\ UNCHANGED xSig

\* ------------------------------------------------------- PublishTransport
PubInit ==
    /\ pubTr = [p \in Pubs |-> 0]
    /\ pubId = [p \in Pubs |-> NoId]
    /\ otPc = [p \in Pubs |-> "idle"]
    /\ onTrackLock = [t \in PTs |-> {}]
    /\ ingress = [p \in Pubs |-> "none"]
    /\ published = [t \in PTs |-> <<>>]
    /\ recvLock = [t \in PTs |-> {}]
    /\ pbPc = [c \in Callers |-> "idle"]
    /\ pbTr = [c \in Callers |-> 0]
    /\ pbWant = [c \in Callers |-> NoId]
    /\ pbGot = [c \in Callers |-> 0]
    /\ sentLog = <<>>

\* the peer connection raises on_track(track, receiver, transceiver)
OnTrackRaise(p, t, id) ==
    /\ otPc[p] = "idle"
    /\ \A q \in Pubs : q < p => otPc[q] # "idle"
    /\ otPc' = [otPc EXCEPT ![p] = "lock"]
    /\ pubTr' = [pubTr EXCEPT ![p] = t]
    /\ pubId' = [pubId EXCEPT ![p] = id]
    /\ UNCHANGED <<onTrackLock, ingress, published, recvLock, pbPc, pbTr,
                   pbWant, pbGot, sentLog, routerVars, xPub>>

\* let locked = on_track.lock().await;
OnTrackLock(p) ==
    /\ otPc[p] = "lock"
    /\ onTrackLock[pubTr[p]] = {}
    /\ onTrackLock' = [onTrackLock EXCEPT ![pubTr[p]] = {p}]
    /\ otPc' = [otPc EXCEPT ![p] = "new"]
    /\ UNCHANGED <<pubTr, pubId, ingress, published, recvLock, pbPc, pbTr,
                   pbWant, pbGot, sentLog, routerVars, xPub>>

\* Publisher::new(...): the Publisher is constructed, its ingress loop spawned
OnTrackNew(p) ==
    /\ otPc[p] = "new"
    /\ ingress' = [ingress EXCEPT ![p] = "running"]
    /\ otPc' = [otPc EXCEPT ![p] = "announce"]
    /\ UNCHANGED <<pubTr, pubId, onTrackLock, published, recvLock, pbPc, pbTr,
                   pbWant, pbGot, sentLog, routerVars, xPub>>

\* published_sender.send(publisher.clone())
OnTrackAnnounce(p) ==
    /\ otPc[p] = "announce"
    /\ published' = [published EXCEPT ![pubTr[p]] = Append(@, p)]
    /\ otPc' = [otPc EXCEPT ![p] = "register"]
    /\ UNCHANGED <<pubTr, pubId, onTrackLock, ingress, recvLock, pbPc, pbTr,
                   pbWant, pbGot, sentLog, routerVars, xPub>>

\* router_sender.send(RouterEvent::TrackPublished(publisher)); (locked)(...)
OnTrackRegister(p) ==
    /\ otPc[p] = "register"
    /\ events' = Append(events, TrackPublished(p))
    /\ sentLog' = Append(sentLog, <<"TrackPublished", p>>)
    /\ otPc' = [otPc EXCEPT ![p] = "await"]
    /\ UNCHANGED <<pubTr, pubId, onTrackLock, ingress, published, recvLock,
                   pbPc, pbTr, pbWant, pbGot, publishers, lastProcessed, xPub>>

\* the ingress loop ends (read_rtp returned Err): closed_sender.send(true)
IngressEnd(p) ==
    /\ ingress[p] = "running"
    /\ ingress' = [ingress EXCEPT ![p] = "finished"]
    /\ UNCHANGED <<pubTr, pubId, otPc, onTrackLock, published, recvLock, pbPc,
                   pbTr, pbWant, pbGot, sentLog, routerVars, xPub>>

\* let _ = closed.await; router_sender.send(RouterEvent::TrackRemoved(id));
\* the handler returns and drops `locked`
OnTrackClosed(p) ==
    /\ otPc[p] = "await"
    /\ ingress[p] = "finished"
    /\ events' = Append(events, TrackRemoved(pubId[p]))
    /\ sentLog' = Append(sentLog, <<"TrackRemoved", p>>)
    /\ otPc' = [otPc EXCEPT ![p] = "done"]
    /\ onTrackLock' = [onTrackLock EXCEPT ![pubTr[p]] = {}]
    /\ UNCHANGED <<pubTr, pubId, ingress, published, recvLock, pbPc, pbTr,
                   pbWant, pbGot, publishers, lastProcessed, xPub>>

OnTrackStep(p) ==
    \/ OnTrackLock(p)
    \/ OnTrackNew(p)
    \/ OnTrackAnnounce(p)
    \/ OnTrackRegister(p)
    \/ OnTrackClosed(p)

\* the application calls publish(track_id) on transport t
PublishCall(c, t, id) ==
    /\ pbPc[c] = "idle"
    /\ \A d \in Callers : d < c => pbPc[d] # "idle"
    /\ pbPc' = [pbPc EXCEPT ![c] = "lock"]
    /\ pbTr' = [pbTr EXCEPT ![c] = t]
    /\ pbWant' = [pbWant EXCEPT ![c] = id]
    /\ UNCHANGED <<pubTr, pubId, otPc, onTrackLock, ingress, published,
                   recvLock, pbGot, sentLog, routerVars, xPub>>

\* receiver.lock().await
PublishLock(c) ==
    /\ pbPc[c] = "lock"
    /\ recvLock[pbTr[c]] = {}
    /\ recvLock' = [recvLock EXCEPT ![pbTr[c]] = {c}]
    /\ pbPc' = [pbPc EXCEPT ![c] = "recv"]
    /\ UNCHANGED <<pubTr, pubId, otPc, onTrackLock, ingress, published, pbTr,
                   pbWant, pbGot, sentLog, routerVars, xPub>>

\* if publisher.id == track_id
PublishMatches(p, track_id) == pubId[p] = track_id

\* .recv().await yields the oldest unread announcement; it is returned when
\* its id is the requested one and dropped otherwise (the guard is released
\* at the end of the iteration either way)
PublishRecv(c) ==
    /\ pbPc[c] = "recv"
    /\ published[pbTr[c]] # <<>>
    /\ LET p == Head(published[pbTr[c]]) IN
        /\ published' = [published EXCEPT ![pbTr[c]] = Tail(@)]
        /\ recvLock' = [recvLock EXCEPT ![pbTr[c]] = {}]
        /\ IF PublishMatches(p, pbWant[c])
           THEN /\ pbPc' = [pbPc EXCEPT ![c] = "returned"]
                /\ pbGot' = [pbGot EXCEPT ![c] = p]
           ELSE /\ pbPc' = [pbPc EXCEPT ![c] = "lock"]
                /\ UNCHANGED pbGot
    /\ UNCHANGED <<pubTr, pubId, otPc, onTrackLock, ingress, pbTr, pbWant,
                   sentLog, routerVars, xPub>>

PublishStep(c) == PublishLock(c) \/ PublishRecv(c)

\* ------------------------------------------- SubscribeTransport: signalling
sbVars == <<sbPc, sbWant, sbReply, sbReplied, sbResult, attached, sbAbsent,
            sbClaimed>>
nnVars == <<nnPc, nnLock, nnOffers, nnFiredPending, nnCleared>>
saVars == <<saPc, saCalls, saResult, saAfterOffer>>

SigInit ==
    /\ signaling_pending = FALSE
    /\ sbPc = [s \in SubCalls |-> "idle"]
    /\ sbWant = [s \in SubCalls |-> NoId]
    /\ sbReply = [s \in SubCalls |-> None]
    /\ sbReplied = [s \in SubCalls |-> FALSE]
    /\ sbResult = [s \in SubCalls |-> "-"]
    /\ attached = {}
    /\ nnPc = [n \in NNs |-> "idle"]
    /\ nnLock = {}
    /\ nnOffers = [n \in NNs |-> 0]
    /\ saPc = "idle"
    /\ saCalls = 0
    /\ saResult = "-"
    /\ saAfterOffer = FALSE
    /\ pcState = "open"
    /\ inflight = 0
    /\ sbAbsent = [s \in SubCalls |-> FALSE]
    /\ sbClaimed = [s \in SubCalls |-> FALSE]
    /\ claimedSinceAnswer = FALSE
    /\ nnFiredPending = [n \in NNs |-> FALSE]
    /\ nnCleared = [n \in NNs |-> FALSE]

\* a wait loop that does not look at the flag
SignalingIdle_Always == TRUE

\* signaling_pending.load(Ordering::Relaxed) returned false
SignalingIdle == ~signaling_pending

\* what the peer connection's fallible calls may return: anything while it
\* is open, an error once it is closed
PcOutcomes == IF pcState = "open" THEN BOOLEAN ELSE {FALSE}

\* subscribe(publisher_id): router_event_sender.send(GetPublisher(id, tx))
SubscribeCall(s, id) ==
    /\ sbPc[s] = "idle"
    /\ pcState # "dropped"
    /\ \A r \in SubCalls : r < s => sbPc[r] # "idle"
    /\ sbPc' = [sbPc EXCEPT ![s] = "sent"]
    /\ sbWant' = [sbWant EXCEPT ![s] = id]
    /\ events' = Append(events, GetPublisher(id, s))
    /\ UNCHANGED <<sbReply, sbReplied, sbResult, attached, sbAbsent, sbClaimed>>
    /\ UNCHANGED <<signaling_pending, pcState, inflight, claimedSinceAnswer,
                   nnVars, saVars, publishers, lastProcessed, xSig>>

\* let reply = rx.await.unwrap(); match reply { None => return Err(..), .. }
SubscribeMatch(s) ==
    /\ sbPc[s] = "sent"
    /\ sbReplied[s]
    /\ IF sbReply[s].some
       THEN /\ sbPc' = [sbPc EXCEPT ![s] = "wait"]
            /\ UNCHANGED sbResult
       ELSE /\ sbPc' = [sbPc EXCEPT ![s] = "done"]
            /\ sbResult' = [sbResult EXCEPT ![s] = "TrackNotFoundError"]
    /\ UNCHANGED <<sbWant, sbReply, sbReplied, attached, sbAbsent, sbClaimed>>
    /\ UNCHANGED <<signaling_pending, pcState, inflight, claimedSinceAnswer,
                   nnVars, saVars, routerVars, xSig>>

\* while self.signaling_pending.load(Relaxed) { sleep(10ms).await } is left
SubscribeWait(s) ==
    /\ sbPc[s] = "wait"
    /\ SignalingIdle
    /\ sbPc' = [sbPc EXCEPT ![s] = "claim"]
    /\ UNCHANGED <<sbWant, sbReply, sbReplied, sbResult, attached, sbAbsent,
                   sbClaimed>>
    /\ UNCHANGED <<signaling_pending, pcState, inflight, claimedSinceAnswer,
                   nnVars, saVars, routerVars, xSig>>

\* self.signaling_pending.store(true, Relaxed)
SubscribeClaim(s) ==
    /\ sbPc[s] = "claim"
    /\ signaling_pending' = TRUE
    /\ claimedSinceAnswer' = TRUE
    /\ sbClaimed' = [sbClaimed EXCEPT ![s] = TRUE]
    /\ sbPc' = [sbPc EXCEPT ![s] = "attach"]
    /\ UNCHANGED <<sbWant, sbReply, sbReplied, sbResult, attached, sbAbsent>>
    /\ UNCHANGED <<pcState, inflight, nnVars, saVars, routerVars, xSig>>

\* let subscriber = self.subscribe_track(publisher).await?;
SubscribeTrack(s) ==
    /\ sbPc[s] = "attach"
    /\ \E ok \in PcOutcomes :
        IF ok
        THEN /\ attached' = attached \cup {s}
             /\ sbPc' = [sbPc EXCEPT ![s] = "offer"]
             /\ UNCHANGED sbResult
        ELSE /\ sbPc' = [sbPc EXCEPT ![s] = "done"]
             /\ sbResult' = [sbResult EXCEPT ![s] = "Err"]
             /\ UNCHANGED attached
    /\ UNCHANGED <<sbWant, sbReply, sbReplied, sbAbsent, sbClaimed>>
    /\ UNCHANGED <<signaling_pending, pcState, inflight, claimedSinceAnswer,
                   nnVars, saVars, routerVars, xSig>>

\* let offer = self.create_offer().await?; Ok((subscriber, offer))
SubscribeOffer(s) ==
    /\ sbPc[s] = "offer"
    /\ \E ok \in PcOutcomes :
        /\ sbResult' = [sbResult EXCEPT ![s] = IF ok THEN "Ok" ELSE "Err"]
        /\ inflight' = IF ok THEN inflight + 1 ELSE inflight
    /\ sbPc' = [sbPc EXCEPT ![s] = "done"]
    /\ UNCHANGED <<sbWant, sbReply, sbReplied, attached, sbAbsent, sbClaimed>>
    /\ UNCHANGED <<signaling_pending, pcState, claimedSinceAnswer,
                   nnVars, saVars, routerVars, xSig>>

SubscribeStep(s) ==
    \/ SubscribeMatch(s)
    \/ SubscribeWait(s)
    \/ SubscribeClaim(s)
    \/ SubscribeTrack(s)
    \/ SubscribeOffer(s)

\* the peer connection invokes the on_negotiation_needed callback
NNFire(n) ==
    /\ nnPc[n] = "idle"
    /\ \A m \in NNs : m < n => nnPc[m] # "idle"
    /\ nnPc' = [nnPc EXCEPT ![n] = "wait"]
    /\ nnFiredPending' = [nnFiredPending EXCEPT ![n] = signaling_pending]
    /\ UNCHANGED <<nnLock, nnOffers, nnCleared>>
    /\ UNCHANGED <<signaling_pending, pcState, inflight, claimedSinceAnswer,
                   sbVars, saVars, routerVars, xSig>>

\* while signaling_pending.load(Relaxed) { sleep(10ms).await } is left
NNWait(n) ==
    /\ nnPc[n] = "wait"
    /\ SignalingIdle
    /\ nnPc' = [nnPc EXCEPT ![n] = "lock"]
    /\ UNCHANGED <<nnLock, nnOffers, nnFiredPending, nnCleared>>
    /\ UNCHANGED <<signaling_pending, pcState, inflight, claimedSinceAnswer,
                   sbVars, saVars, routerVars, xSig>>

\* let locked = on_negotiation_needed.lock().await;
NNLock(n) ==
    /\ nnPc[n] = "lock"
    /\ nnLock = {}
    /\ nnLock' = {n}
    /\ nnPc' = [nnPc EXCEPT ![n] = "check"]
    /\ UNCHANGED <<nnOffers, nnFiredPending, nnCleared>>
    /\ UNCHANGED <<signaling_pending, pcState, inflight, claimedSinceAnswer,
                   sbVars, saVars, routerVars, xSig>>

\* a callback that goes on whatever has become of the peer connection
PcGone_Never == FALSE

\* downgraded_peer.upgrade() is None, or pc.connection_state() is Closed
PcGone == pcState \in {"closed", "dropped"}

\* if let Some(pc) = downgraded_peer.upgrade() {
\*     if pc.connection_state() == Closed { return; }
\*     signaling_pending.store(true, Relaxed);
NNCheck(n) ==
    /\ nnPc[n] = "check"
    /\ IF PcGone
       THEN /\ nnPc' = [nnPc EXCEPT ![n] = "noop"]
            /\ nnLock' = {}
            /\ UNCHANGED <<signaling_pending, claimedSinceAnswer>>
       ELSE /\ nnPc' = [nnPc EXCEPT ![n] = "offer"]
            /\ signaling_pending' = TRUE
            /\ claimedSinceAnswer' = TRUE
            /\ UNCHANGED nnLock
    /\ UNCHANGED <<nnOffers, nnFiredPending, nnCleared>>
    /\ UNCHANGED <<pcState, inflight, sbVars, saVars, routerVars, xSig>>

\* pc.create_offer(..).await.expect(..) .. (locked)(offer): the offer is
\* passed to the user's handler, or an expect() panics; `locked` is dropped
NNOffer(n) ==
    /\ nnPc[n] = "offer"
    /\ \E ok \in PcOutcomes :
        /\ nnPc' = [nnPc EXCEPT ![n] = IF ok THEN "done" ELSE "panicked"]
        /\ nnOffers' = [nnOffers EXCEPT ![n] = IF ok THEN @ + 1 ELSE @]
        /\ inflight' = IF ok THEN inflight + 1 ELSE inflight
    /\ nnLock' = {}
    /\ UNCHANGED <<nnFiredPending, nnCleared>>
    /\ UNCHANGED <<signaling_pending, pcState, claimedSinceAnswer,
                   sbVars, saVars, routerVars, xSig>>

NNStep(n) == NNWait(n) \/ NNLock(n) \/ NNCheck(n) \/ NNOffer(n)

\* the SubscribeTransport is dropped and the last Arc of the peer connection
\* goes with it: no call borrows the transport and no callback holds the
\* upgraded Arc
SubscribeTransportDrop ==
    /\ pcState # "dropped"
    /\ \A s \in SubCalls : sbPc[s] \in {"idle", "done"}
    /\ saPc = "idle"
    /\ \A n \in NNs : nnPc[n] # "offer"
    /\ pcState' = "dropped"
    /\ UNCHANGED <<signaling_pending, inflight, claimedSinceAnswer, sbVars,
                   nnVars, saVars, routerVars, xSig>>

\* --------------------------------------- pending ICE candidates, answers
iceCallVars == <<icePc, iceTr, iceResult>>
gaVars == <<gaPc, gaCalls, gaResult>>

IceInit ==
    /\ remoteDesc = [t \in IceTrs |-> FALSE]
    /\ pending_candidates = [t \in IceTrs |-> <<>>]
    /\ candLock = [t \in IceTrs |-> {}]
    /\ pcCands = [c \in Cands |-> 0]
    /\ icePc = [c \in Cands |-> "idle"]
    /\ iceTr = [c \in Cands |-> "-"]
    /\ iceResult = [c \in Cands |-> "-"]
    /\ gaPc = "idle"
    /\ gaCalls = 0
    /\ gaResult = "-"
    /\ answerOps = [t \in IceTrs |-> <<>>]

Range(q) == {q[i] : i \in DOMAIN q}

\* a flush that stops before the last pending candidate
FlushPending_SkipLast(cnt, buf) ==
    [c \in Cands |->
        IF \E i \in 1..(Len(buf) - 1) : buf[i] = c THEN cnt[c] + 1 ELSE cnt[c]]

\* for candidate in pendings.iter() { peer_connection.add_ice_candidate(..) }
FlushPending(cnt, buf) ==
    [c \in Cands |-> IF c \in Range(buf) THEN cnt[c] + 1 ELSE cnt[c]]

\* a set_answer that leaves the flag set
SetAnswerStore_Keep == TRUE

\* the value set_answer stores to signaling_pending
SetAnswerStore == FALSE

\* a `?` that goes on after an Err
Try_Ignore(ok, next) == next

\* the `?` operator: where the call goes on after a fallible step, "idle"
\* being the early return of the Err
Try(ok, next) == IF ok THEN next ELSE "idle"

\* one call the function makes, as the peer connection (or the flag) sees it
Op(name, cand, ok) == [op |-> name, cand |-> cand, ok |-> ok]

\* a flush that passes no candidate
FlushOps_None(buf) == <<>>

\* the add_ice_candidate calls of the for loop over `pendings`; an Err of
\* one of them is logged and the loop goes on
FlushOps(buf) == [i \in 1..Len(buf) |-> Op("add_ice_candidate", buf[i], TRUE)]

iceRest == <<remoteDesc, pending_candidates, candLock, pcCands, iceCallVars,
             gaVars>>

\* set_answer(answer) is called
SetAnswerCall ==
    /\ saPc = "idle"
    /\ pcState # "dropped"
    /\ saCalls < MaxAnswers
    /\ saPc' = "remote"
    /\ saCalls' = saCalls + 1
    /\ saAfterOffer' = (\E s \in SubCalls : sbResult[s] = "Ok")
    /\ answerOps' = [answerOps EXCEPT !["sub"] = <<>>]
    /\ UNCHANGED <<saResult, signaling_pending, pcState, inflight,
                   claimedSinceAnswer, sbVars, nnVars, routerVars, pubVars,
                   fwdVars, auxVars, iceRest>>

\* self.peer_connection.set_remote_description(answer).await?;
SetAnswerRemote ==
    /\ saPc = "remote"
    /\ \E ok \in PcOutcomes :
        /\ remoteDesc' = IF ok THEN [remoteDesc EXCEPT !["sub"] = TRUE]
                         ELSE remoteDesc
        /\ saPc' = Try(ok, "clear")
        /\ saResult' = IF ok THEN saResult ELSE "Err"
        /\ answerOps' = [answerOps EXCEPT
                           !["sub"] = Append(@, Op("set_remote_description", 0, ok))]
    /\ UNCHANGED <<saCalls, saAfterOffer, signaling_pending, pcState, inflight,
                   claimedSinceAnswer, sbVars, nnVars>>
    /\ UNCHANGED <<pending_candidates, candLock, pcCands, iceCallVars, gaVars>>
    /\ UNCHANGED xIce

\* self.signaling_pending.store(false, Ordering::Relaxed);
SetAnswerClear ==
    /\ saPc = "clear"
    /\ signaling_pending' = SetAnswerStore
    /\ claimedSinceAnswer' = FALSE
    /\ nnCleared' = [n \in NNs |-> nnCleared[n] \/ nnPc[n] # "idle"]
    /\ saPc' = "flush"
    /\ answerOps' = [answerOps EXCEPT
                       !["sub"] = Append(@, Op("store_signaling_pending", 0, TRUE))]
    /\ UNCHANGED <<saCalls, saAfterOffer, saResult, pcState, inflight, sbVars,
                   nnPc, nnLock, nnOffers, nnFiredPending, routerVars, pubVars,
                   fwdVars, auxVars, iceRest>>

\* let pendings = self.pending_candidates.lock().await; for candidate in ..
SetAnswerFlush ==
    /\ saPc = "flush"
    /\ candLock["sub"] = {}
    /\ candLock' = [candLock EXCEPT !["sub"] = {"set_answer"}]
    /\ pcCands' = FlushPending(pcCands, pending_candidates["sub"])
    /\ answerOps' = [answerOps EXCEPT
                       !["sub"] = @ \o FlushOps(pending_candidates["sub"])]
    /\ saPc' = "ret"
    /\ UNCHANGED <<saCalls, saAfterOffer, saResult, signaling_pending, pcState, inflight,
                   claimedSinceAnswer, sbVars, nnVars>>
    /\ UNCHANGED <<remoteDesc, pending_candidates, iceCallVars, gaVars>>
    /\ UNCHANGED xIce

\* Ok(()): `pendings` is dropped
SetAnswerReturn ==
    /\ saPc = "ret"
    /\ candLock' = [candLock EXCEPT !["sub"] = {}]
    /\ saResult' = "Ok"
    /\ inflight' = 0
    /\ saPc' = "idle"
    /\ UNCHANGED <<saCalls, saAfterOffer, signaling_pending, pcState, claimedSinceAnswer,
                   sbVars, nnVars>>
    /\ UNCHANGED <<remoteDesc, pending_candidates, pcCands, iceCallVars, gaVars,
                   answerOps>>
    /\ UNCHANGED xIce

SetAnswerStep ==
    \/ SetAnswerRemote
    \/ SetAnswerClear
    \/ SetAnswerFlush
    \/ SetAnswerReturn

\* get_answer(offer) is called on the PublishTransport
GetAnswerCall ==
    /\ gaPc = "idle"
    /\ gaCalls < MaxAnswers
    /\ gaPc' = "remote"
    /\ gaCalls' = gaCalls + 1
    /\ answerOps' = [answerOps EXCEPT !["pub"] = <<>>]
    /\ UNCHANGED <<gaResult, remoteDesc, pending_candidates, candLock,
                   pcCands, iceCallVars, sigVars, xIce>>

\* self.peer_connection.set_remote_description(offer).await?;
GetAnswerRemote ==
    /\ gaPc = "remote"
    /\ \E ok \in BOOLEAN :
        /\ remoteDesc' = IF ok THEN [remoteDesc EXCEPT !["pub"] = TRUE]
                         ELSE remoteDesc
        /\ gaPc' = Try(ok, "flush")
        /\ gaResult' = IF ok THEN gaResult ELSE "Err"
        /\ answerOps' = [answerOps EXCEPT
                           !["pub"] = Append(@, Op("set_remote_description", 0, ok))]
    /\ UNCHANGED <<gaCalls, pending_candidates, candLock, pcCands,
                   iceCallVars, sigVars, xIce>>

\* let pendings = self.pending_candidates.lock().await; for candidate in ..
GetAnswerFlush ==
    /\ gaPc = "flush"
    /\ candLock["pub"] = {}
    /\ candLock' = [candLock EXCEPT !["pub"] = {"get_answer"}]
    /\ pcCands' = FlushPending(pcCands, pending_candidates["pub"])
    /\ answerOps' = [answerOps EXCEPT
                       !["pub"] = @ \o FlushOps(pending_candidates["pub"])]
    /\ gaPc' = "answer"
    /\ UNCHANGED <<gaCalls, gaResult, remoteDesc, pending_candidates,
                   iceCallVars, sigVars, xIce>>

\* a fallible step of get_answer_for_offer after the flush; `pendings` is
\* dropped when the function returns
GetAnswerTry(at, name, next) ==
    /\ gaPc = at
    /\ \E ok \in BOOLEAN :
        /\ gaPc' = Try(ok, next)
        /\ gaResult' = IF ok THEN gaResult ELSE "Err"
        /\ answerOps' = [answerOps EXCEPT !["pub"] = Append(@, Op(name, 0, ok))]
    /\ candLock' = IF gaPc' = "idle" THEN [candLock EXCEPT !["pub"] = {}]
                   ELSE candLock
    /\ UNCHANGED <<gaCalls, remoteDesc, pending_candidates, pcCands,
                   iceCallVars, sigVars, xIce>>

\* let answer = self.peer_connection.create_answer(None).await?;
GetAnswerCreate == GetAnswerTry("answer", "create_answer", "local")

\* self.peer_connection.set_local_description(answer).await?;
GetAnswerLocal == GetAnswerTry("local", "set_local_description", "ret")

\* match self.peer_connection.local_description().await
\*     { Some(answer) => Ok(answer), None => Err(..) }
GetAnswerReturn ==
    /\ gaPc = "ret"
    /\ \E ok \in BOOLEAN :
        /\ gaResult' = IF ok THEN "Ok" ELSE "Err"
        /\ answerOps' = [answerOps EXCEPT
                           !["pub"] = Append(@, Op("local_description", 0, ok))]
    /\ candLock' = [candLock EXCEPT !["pub"] = {}]
    /\ gaPc' = "idle"
    /\ UNCHANGED <<gaCalls, remoteDesc, pending_candidates, pcCands,
                   iceCallVars, sigVars, xIce>>

GetAnswerStep ==
    \/ GetAnswerRemote
    \/ GetAnswerFlush
    \/ GetAnswerCreate
    \/ GetAnswerLocal
    \/ GetAnswerReturn

\* add_ice_candidate(candidate) on transport t:
\* if let Some(_rd) = self.peer_connection.remote_description().await
AddIceCall(c, t) ==
    /\ icePc[c] = "idle"
    /\ \A b \in Cands : b < c => icePc[b] # "idle"
    /\ icePc' = [icePc EXCEPT ![c] = IF remoteDesc[t] THEN "add" ELSE "park"]
    /\ iceTr' = [iceTr EXCEPT ![c] = t]
    /\ UNCHANGED <<iceResult, remoteDesc, pending_candidates, candLock,
                   pcCands, gaVars, answerOps, sigVars, xIce>>

\* self.peer_connection.add_ice_candidate(candidate.clone()).await?; Ok(())
AddIceDirect(c) ==
    /\ icePc[c] = "add"
    /\ pcCands' = [pcCands EXCEPT ![c] = @ + 1]
    /\ \E ok \in BOOLEAN :
        iceResult' = [iceResult EXCEPT ![c] = IF ok THEN "Ok" ELSE "Err"]
    /\ icePc' = [icePc EXCEPT ![c] = "added"]
    /\ UNCHANGED <<iceTr, remoteDesc, pending_candidates, candLock, gaVars,
                   answerOps, sigVars, xIce>>

\* self.pending_candidates.lock().await.push(candidate.clone()); Ok(())
AddIcePark(c) ==
    /\ icePc[c] = "park"
    /\ candLock[iceTr[c]] = {}
    /\ pending_candidates' =
         [pending_candidates EXCEPT ![iceTr[c]] = Append(@, c)]
    /\ iceResult' = [iceResult EXCEPT ![c] = "Ok"]
    /\ icePc' = [icePc EXCEPT ![c] = "parked"]
    /\ UNCHANGED <<iceTr, remoteDesc, candLock, pcCands, gaVars, answerOps,
                   sigVars, xIce>>

AddIceStep(c) == AddIceDirect(c) \/ AddIcePark(c)

\* ------------------------------------------------------- forwarding loops
FwdInit ==
    /\ mtIngress = [p \in Pubs |-> "running"]
    /\ mtHeld = [p \in Pubs |-> TRUE]
    /\ rkPc = [k \in RtpKids |-> "none"]
    /\ rkPub = [k \in RtpKids |-> 0]
    /\ rtpQueue = [k \in RtpKids |-> 0]
    /\ dkPc = [d \in DataKids |-> "none"]
    /\ dataQueue = [d \in DataKids |-> 0]
    /\ dkClosed = [d \in DataKids |-> 0]
    /\ dkCloseCalled = [d \in DataKids |-> FALSE]
    /\ closedChan = 0
    /\ closedLock = {}

RtpKid(k) == <<"rtp", k>>
DataKid(d) == <<"data", d>>

\* the RTP writer tasks that own a broadcast::Receiver of publisher p
RtpReceivers(p) ==
    {k \in RtpKids : rkPub[k] = p /\ rkPc[k] \in {"lock", "select", "write"}}

\* every broadcast::Sender<Packet> of p is dropped: the one moved into the
\* ingress task, the one of the MediaTrack, the clones of spawned tasks
RtpSenderDropped(p) ==
    /\ mtIngress[p] = "ended"
    /\ ~mtHeld[p]
    /\ \A k \in RtpKids : ~(rkPub[k] = p /\ rkPc[k] = "spawned")

\* the DataSubscriber loops that own a broadcast receiver
DataReceivers == {d \in DataKids : dkPc[d] \in {"lock", "select", "send"}}

\* MediaTrack::rtp_event_loop: read_rtp returned Ok, the packet is broadcast
\* if rtp_sender.receiver_count() > 0
MediaTrackRead(p) ==
    /\ mtIngress[p] = "running"
    /\ \A k \in RtpReceivers(p) : rtpQueue[k] < MaxQueue
    /\ rtpQueue' = [k \in RtpKids |->
                      IF k \in RtpReceivers(p) THEN rtpQueue[k] + 1
                      ELSE rtpQueue[k]]
    /\ UNCHANGED <<mtIngress, mtHeld, rkPc, rkPub, dkPc, dataQueue, dkClosed,
                   dkCloseCalled, closedChan, closedLock, sigVars, xFwd>>

\* MediaTrack::rtp_event_loop: read_rtp returned Err, the task and its
\* rtp_sender end
MediaTrackEnd(p) ==
    /\ mtIngress[p] = "running"
    /\ mtIngress' = [mtIngress EXCEPT ![p] = "ended"]
    /\ UNCHANGED <<mtHeld, rkPc, rkPub, rtpQueue, dkPc, dataQueue, dkClosed,
                   dkCloseCalled, closedChan, closedLock, sigVars, xFwd>>

\* the last Arc<MediaTrack> of p is dropped (Router map entry removed,
\* application handles gone)
MediaTrackDrop(p) ==
    /\ mtIngress[p] = "ended"
    /\ mtHeld[p]
    /\ mtHeld' = [mtHeld EXCEPT ![p] = FALSE]
    /\ UNCHANGED <<mtIngress, rkPc, rkPub, rtpQueue, dkPc, dataQueue, dkClosed,
                   dkCloseCalled, closedChan, closedLock, sigVars, xFwd>>

\* subscribe_track(media_track): add_track succeeded, the RTP writer task is
\* spawned with clones of rtp_sender and closed_receiver
SubscribeTrackSpawn(k, p) ==
    /\ rkPc[k] = "none"
    /\ \A j \in RtpKids : j < k => rkPc[j] # "none"
    /\ mtHeld[p]
    /\ pcState = "open"
    /\ rkPc' = [rkPc EXCEPT ![k] = "spawned"]
    /\ rkPub' = [rkPub EXCEPT ![k] = p]
    /\ UNCHANGED <<mtIngress, mtHeld, rtpQueue, dkPc, dataQueue, dkClosed,
                   dkCloseCalled, closedChan, closedLock, sigVars, xFwd>>

\* let receiver = rtp_buffer.subscribe(); drop(rtp_buffer);
RtpSubscribe(k) ==
    /\ rkPc[k] = "spawned"
    /\ rkPc' = [rkPc EXCEPT ![k] = "lock"]
    /\ UNCHANGED <<mtIngress, mtHeld, rkPub, rtpQueue, dkPc, dataQueue,
                   dkClosed, dkCloseCalled, closedChan, closedLock, sigVars,
                   xFwd>>

\* let mut closed = subscriber_closed.lock().await;
RtpLock(k) ==
    /\ rkPc[k] = "lock"
    /\ closedLock = {}
    /\ closedLock' = {RtpKid(k)}
    /\ rkPc' = [rkPc EXCEPT ![k] = "select"]
    /\ UNCHANGED <<mtIngress, mtHeld, rkPub, rtpQueue, dkPc, dataQueue,
                   dkClosed, dkCloseCalled, closedChan, sigVars, xFwd>>

\* the branches of the RTP loop's select! that are ready
RtpReady(k) ==
    {b \in {"closed", "packet", "sender_dropped"} :
        CASE b = "closed" -> closedChan > 0
          [] b = "packet" -> rtpQueue[k] > 0
          [] OTHER -> rtpQueue[k] = 0 /\ RtpSenderDropped(rkPub[k])}

\* one branch of tokio::select! { closed.recv() => break,
\*                                rtp_receiver.recv() => .. }
RtpBranch(k, b) ==
    /\ rkPc[k] = "select"
    /\ b \in RtpReady(k)
    /\ CASE b = "closed" ->
               /\ closedChan' = closedChan - 1
               /\ closedLock' = {}
               /\ rkPc' = [rkPc EXCEPT ![k] = "remove"]
               /\ UNCHANGED rtpQueue
          [] b = "packet" ->
               /\ rtpQueue' = [rtpQueue EXCEPT ![k] = @ - 1]
               /\ rkPc' = [rkPc EXCEPT ![k] = "write"]
               /\ UNCHANGED <<closedChan, closedLock>>
          [] OTHER ->
               /\ closedLock' = {}
               /\ rkPc' = [rkPc EXCEPT ![k] = "remove"]
               /\ UNCHANGED <<closedChan, rtpQueue>>
    /\ UNCHANGED <<mtIngress, mtHeld, rkPub, dkPc, dataQueue, dkClosed,
                   dkCloseCalled, sigVars, xFwd>>

\* select! takes one of the ready branches, chosen at random
RtpSelect(k) == \E b \in {"closed", "packet", "sender_dropped"} : RtpBranch(k, b)

\* local_track.write_rtp(&packet).await; the iteration ends, `closed` drops
RtpWrite(k) ==
    /\ rkPc[k] = "write"
    /\ closedLock' = {}
    /\ rkPc' = [rkPc EXCEPT ![k] = "lock"]
    /\ UNCHANGED <<mtIngress, mtHeld, rkPub, rtpQueue, dkPc, dataQueue,
                   dkClosed, dkCloseCalled, closedChan, sigVars, xFwd>>

\* let _ = peer.remove_track(&rtcp_sender).await;
RtpRemove(k) ==
    /\ rkPc[k] = "remove"
    /\ rkPc' = [rkPc EXCEPT ![k] = "done"]
    /\ rtpQueue' = [rtpQueue EXCEPT ![k] = 0]
    /\ UNCHANGED <<mtIngress, mtHeld, rkPub, dkPc, dataQueue, dkClosed,
                   dkCloseCalled, closedChan, closedLock, sigVars, xFwd>>

RtpStep(k) ==
    \/ RtpSubscribe(k)
    \/ RtpLock(k)
    \/ RtpSelect(k)
    \/ RtpWrite(k)
    \/ RtpRemove(k)

\* subscribe_data: DataSubscriber::new spawns the data loop, which
\* subscribes to data_sender and keeps that sender for its lifetime
DataSubscriberNew(d) ==
    /\ dkPc[d] = "none"
    /\ \A j \in DataKids : j < d => dkPc[j] # "none"
    /\ pcState = "open"
    /\ dkPc' = [dkPc EXCEPT ![d] = "lock"]
    /\ UNCHANGED <<mtIngress, mtHeld, rkPc, rkPub, rtpQueue, dataQueue,
                   dkClosed, dkCloseCalled, closedChan, closedLock, sigVars,
                   xFwd>>

\* DataPublisher's on_message handler: data_sender.send(msg)
DataMessage ==
    /\ DataReceivers # {}
    /\ \A d \in DataReceivers : dataQueue[d] < MaxQueue
    /\ dataQueue' = [d \in DataKids |->
                       IF d \in DataReceivers THEN dataQueue[d] + 1
                       ELSE dataQueue[d]]
    /\ UNCHANGED <<mtIngress, mtHeld, rkPc, rkPub, rtpQueue, dkPc, dkClosed,
                   dkCloseCalled, closedChan, closedLock, sigVars, xFwd>>

\* let mut transport_closed = transport_closed.lock().await;
\* let mut subscriber_closed = subscriber_closed.lock().await;
DataLock(d) ==
    /\ dkPc[d] = "lock"
    /\ closedLock = {}
    /\ closedLock' = {DataKid(d)}
    /\ dkPc' = [dkPc EXCEPT ![d] = "select"]
    /\ UNCHANGED <<mtIngress, mtHeld, rkPc, rkPub, rtpQueue, dataQueue,
                   dkClosed, dkCloseCalled, closedChan, sigVars, xFwd>>

\* the branches of the data loop's select! that are ready
DataReady(d) ==
    {b \in {"transport_closed", "subscriber_closed", "message"} :
        CASE b = "transport_closed" -> closedChan > 0
          [] b = "subscriber_closed" -> dkClosed[d] > 0
          [] OTHER -> dataQueue[d] > 0}

\* one branch of tokio::select! { transport_closed.recv() => break,
\*     subscriber_closed.recv() => break, data_receiver.recv() => .. }
DataBranch(d, b) ==
    /\ dkPc[d] = "select"
    /\ b \in DataReady(d)
    /\ CASE b = "transport_closed" ->
               /\ closedChan' = closedChan - 1
               /\ closedLock' = {}
               /\ dkPc' = [dkPc EXCEPT ![d] = "done"]
               /\ dataQueue' = [dataQueue EXCEPT ![d] = 0]
               /\ dkClosed' = [dkClosed EXCEPT ![d] = 0]
          [] b = "subscriber_closed" ->
               /\ closedLock' = {}
               /\ dkPc' = [dkPc EXCEPT ![d] = "done"]
               /\ dataQueue' = [dataQueue EXCEPT ![d] = 0]
               /\ dkClosed' = [dkClosed EXCEPT ![d] = 0]
               /\ UNCHANGED closedChan
          [] OTHER ->
               /\ dataQueue' = [dataQueue EXCEPT ![d] = @ - 1]
               /\ dkPc' = [dkPc EXCEPT ![d] = "send"]
               /\ UNCHANGED <<closedChan, closedLock, dkClosed>>
    /\ UNCHANGED <<mtIngress, mtHeld, rkPc, rkPub, rtpQueue, dkCloseCalled,
                   sigVars, xFwd>>

\* select! takes one of the ready branches, chosen at random
DataSelect(d) ==
    \E b \in {"transport_closed", "subscriber_closed", "message"} : DataBranch(d, b)

\* data_channel.send(&data).await if ready_state() is Open; the iteration
\* ends and both guards drop
DataSend(d) ==
    /\ dkPc[d] = "send"
    /\ closedLock' = {}
    /\ dkPc' = [dkPc EXCEPT ![d] = "lock"]
    /\ UNCHANGED <<mtIngress, mtHeld, rkPc, rkPub, rtpQueue, dataQueue,
                   dkClosed, dkCloseCalled, closedChan, sigVars, xFwd>>

DataStep(d) == DataLock(d) \/ DataSelect(d) \/ DataSend(d)

\* DataSubscriber::close: if !closed_sender.is_closed() { send(true) }
DataSubscriberClose(d) ==
    /\ dkPc[d] # "none"
    /\ ~dkCloseCalled[d]
    /\ dkCloseCalled' = [dkCloseCalled EXCEPT ![d] = TRUE]
    /\ dkClosed' = [dkClosed EXCEPT ![d] = IF dkPc[d] = "done" THEN @ ELSE @ + 1]
    /\ UNCHANGED <<mtIngress, mtHeld, rkPc, rkPub, rtpQueue, dkPc, dataQueue,
                   closedChan, closedLock, sigVars, xFwd>>

\* SubscribeTransport::close: closed_sender.send(true).unwrap();
\* peer_connection.close().await
SubscribeTransportClose ==
    /\ pcState = "open"
    /\ closedChan' = closedChan + 1
    /\ pcState' = "closed"
    /\ UNCHANGED <<mtIngress, mtHeld, rkPc, rkPub, rtpQueue, dkPc, dataQueue,
                   dkClosed, dkCloseCalled, closedLock>>
    /\ UNCHANGED <<signaling_pending, inflight, claimedSinceAnswer, sbVars,
                   nnVars, saVars, xFwd>>

\* ------------------------------------ the RTP packets of one publisher
Packets == 1..MaxPackets
Timestamps == 0..MaxTimestamp
TimestampModulus == MaxTimestamp + 1

\* a packet in flight: its position in the sequence read, its timestamp
Packet(n, t) == [seq |-> n, ts |-> t]

PipeInit ==
    /\ mtRead = <<>>
    /\ mtLast = 0
    /\ mtLoop = "running"
    /\ rsPc = [k \in RtpKids |-> "none"]
    /\ rsBuf = [k \in RtpKids |-> <<>>]
    /\ rsLag = [k \in RtpKids |-> FALSE]
    /\ rsCurr = [k \in RtpKids |-> 0]
    /\ rsOut = [k \in RtpKids |-> <<>>]

\* an ingress that leaves the timestamp as read
IngressTimestamp_Same(last, t) == t

\* if last_timestamp == 0 { rtp.header.timestamp = 0 }
\* else { rtp.header.timestamp -= last_timestamp }
IngressTimestamp(last, t) ==
    IF last = 0 THEN 0 ELSE (t - last + TimestampModulus) % TimestampModulus

\* `-=` on u32 overflows when the timestamp read is below the last one: the
\* build decides whether that wraps or panics
IngressOutcomes(last, t) ==
    IF last # 0 /\ t < last THEN {"wrap", "panic"} ELSE {"wrap"}

\* rtp_sender.send(rtp): every receiver gets the packet at the end of its
\* queue; a receiver whose queue is full loses its oldest packet
BroadcastSend(buf, pkt) ==
    IF Len(buf) = MaxBuffered THEN Append(Tail(buf), pkt) ELSE Append(buf, pkt)

PipeReceivers == {k \in RtpKids : rsPc[k] = "recv"}

\* MediaTrack::rtp_event_loop: one iteration, read_rtp returned Ok
PipeRead(t) ==
    /\ mtLoop = "running"
    /\ Len(mtRead) < MaxPackets
    /\ mtRead' = Append(mtRead, t)
    /\ \E o \in IngressOutcomes(mtLast, t) :
        IF o = "panic"
        THEN /\ mtLoop' = "panicked"
             /\ UNCHANGED <<mtLast, rsBuf, rsLag>>
        ELSE /\ mtLast' = t
             /\ rsBuf' = [k \in RtpKids |->
                   IF k \in PipeReceivers
                   THEN BroadcastSend(rsBuf[k],
                            Packet(Len(mtRead) + 1, IngressTimestamp(mtLast, t)))
                   ELSE rsBuf[k]]
             /\ rsLag' = [k \in RtpKids |->
                   rsLag[k] \/ (k \in PipeReceivers /\ Len(rsBuf[k]) = MaxBuffered)]
             /\ UNCHANGED mtLoop
    /\ UNCHANGED <<rsPc, rsCurr, rsOut, xPipe>>

\* MediaTrack::rtp_event_loop: read_rtp returned Err, the loop is left
PipeEnd ==
    /\ mtLoop = "running"
    /\ mtLoop' = "ended"
    /\ UNCHANGED <<mtRead, mtLast, rsPc, rsBuf, rsLag, rsCurr, rsOut, xPipe>>

\* let receiver = rtp_buffer.subscribe(); let mut curr_timestamp = 0;
PipeSubscribe(k) ==
    /\ rsPc[k] = "none"
    /\ \A j \in RtpKids : j < k => rsPc[j] # "none"
    /\ rsPc' = [rsPc EXCEPT ![k] = "recv"]
    /\ UNCHANGED <<mtRead, mtLast, mtLoop, rsBuf, rsLag, rsCurr, rsOut, xPipe>>

\* a receiver that hands out its newest packet first
EgressNext_Newest(buf) == buf[Len(buf)]

\* rtp_receiver.recv() yields the oldest packet of the queue
EgressNext(buf) == Head(buf)

\* curr_timestamp += packet.header.timestamp
EgressTimestamp(curr, t) == (curr + t) % TimestampModulus

\* `+=` on u32 overflows past the modulus: wraps or panics with the build
EgressOutcomes(curr, t) ==
    IF curr + t >= TimestampModulus THEN {"wrap", "panic"} ELSE {"wrap"}

\* SubscribeTransport::rtp_event_loop: rtp_receiver.recv() returned.
\* Err(Lagged) leaves the loop; a packet gets the accumulated timestamp and
\* is written to the egress track, unless write_rtp fails (logged only)
PipeForward(k) ==
    /\ rsPc[k] = "recv"
    /\ rsLag[k] \/ rsBuf[k] # <<>>
    /\ IF rsLag[k]
       THEN /\ rsPc' = [rsPc EXCEPT ![k] = "ended"]
            /\ UNCHANGED <<rsBuf, rsCurr, rsOut>>
       ELSE LET pkt == EgressNext(rsBuf[k]) IN
            \E o \in EgressOutcomes(rsCurr[k], pkt.ts) :
              IF o = "panic"
              THEN /\ rsPc' = [rsPc EXCEPT ![k] = "panicked"]
                   /\ UNCHANGED <<rsBuf, rsCurr, rsOut>>
              ELSE /\ rsCurr' = [rsCurr EXCEPT ![k] = EgressTimestamp(@, pkt.ts)]
                   /\ \E written \in BOOLEAN :
                        rsOut' = [rsOut EXCEPT ![k] =
                           IF written
                           THEN Append(@, Packet(pkt.seq,
                                    EgressTimestamp(rsCurr[k], pkt.ts)))
                           ELSE @]
                   /\ rsBuf' = [rsBuf EXCEPT ![k] = Tail(@)]
                   /\ UNCHANGED rsPc
    /\ UNCHANGED <<mtRead, mtLast, mtLoop, rsLag, xPipe>>

\* SubscribeTransport::rtp_event_loop is left on the closed signal or on
\* Err(Closed) (RtpBranch has the conditions)
PipeStop(k) ==
    /\ rsPc[k] = "recv"
    /\ rsPc' = [rsPc EXCEPT ![k] = "ended"]
    /\ UNCHANGED <<mtRead, mtLast, mtLoop, rsBuf, rsLag, rsCurr, rsOut, xPipe>>

\* ------------------------------- RTCP feedback from subscriber to publisher
Ssrcs == 1..MaxSsrc
Bitrates == {50000, 100000, 200000}
FloorSeconds == 30
VideoFloor == 128000
AudioFloor == 64000
AudioRaised == 640000

RtcpPacket(kind, sender, media, bitrate) ==
    [kind |-> kind, sender_ssrc |-> sender, media_ssrc |-> media,
     bitrate |-> bitrate]

\* what read_rtcp can hand to the loop: a receiver report, a PLI, a REMB, or
\* a packet of another type
RtcpInputs ==
    {RtcpPacket("rr", 1, 0, 0), RtcpPacket("other", 1, 0, 0)}
    \cup {RtcpPacket("pli", s, m, 0) : s \in Ssrcs, m \in Ssrcs}
    \cup {RtcpPacket("remb", 1, 0, b) : b \in Bitrates}

RtcpInit ==
    /\ reLoop = "none"
    /\ reIn = <<>>
    /\ reLost = {}
    /\ elapsed = 0
    /\ mediaType = "unset"
    /\ mediaSsrc = 0
    /\ ptChan = <<>>
    /\ ptWritten = <<>>
    /\ ptStop = 0
    /\ ptClosed = FALSE
    /\ ptHandle = TRUE
    /\ wlPc = "select"

\* mime_type.contains("video") || mime_type.contains("Video")
detect_mime_type(video) == IF video THEN "Video" ELSE "Audio"

\* subscribe_track spawns rtcp_event_loop with the track's mime type and SSRC
RtcpLoopStart(video, ssrc) ==
    /\ reLoop = "none"
    /\ reLoop' = "running"
    /\ mediaType' = detect_mime_type(video)
    /\ mediaSsrc' = ssrc
    /\ UNCHANGED <<reIn, reLost, elapsed, ptChan, ptWritten, ptStop, ptClosed,
                   ptHandle, wlPc, xRtcp>>

\* Utc::now() moves on while the loop runs
RtcpTick ==
    /\ reLoop = "running"
    /\ elapsed < MaxElapsed
    /\ elapsed' = elapsed + TickSeconds
    /\ UNCHANGED <<reLoop, reIn, reLost, mediaType, mediaSsrc, ptChan,
                   ptWritten, ptStop, ptClosed, ptHandle, wlPc, xRtcp>>

\* a loop that passes the PLI on as it came
PliForward_AsReceived(pli, ssrc) == pli

\* PictureLossIndication { sender_ssrc: 0, media_ssrc }
PliForward(pli, ssrc) == RtcpPacket("pli", 0, ssrc, 0)

\* the REMB clone with the bitrate raised during the first seconds
RembForward(remb, type, secs) ==
    IF secs < FloorSeconds
    THEN IF type = "Video"
         THEN IF remb.bitrate < VideoFloor
              THEN [remb EXCEPT !.bitrate = VideoFloor] ELSE remb
         ELSE IF remb.bitrate < AudioFloor
              THEN [remb EXCEPT !.bitrate = AudioRaised] ELSE remb
    ELSE remb

\* a loop that passes every packet on
RtcpForward_All(pkt, type, ssrc, secs) == <<pkt>>

\* the packets the loop sends for one packet read
RtcpForward(pkt, type, ssrc, secs) ==
    CASE pkt.kind = "rr" -> <<pkt>>
      [] pkt.kind = "pli" -> <<PliForward(pkt, ssrc)>>
      [] pkt.kind = "remb" -> <<RembForward(pkt, type, secs)>>
      [] OTHER -> <<>>

\* the channel has its receiver while the transport or its writer loop lives
RtcpReceiverAlive == ptHandle \/ wlPc = "select"

\* rtcp_event_loop: one packet of read_rtcp; a failed send is logged
RtcpReceive(pkt) ==
    /\ reLoop = "running"
    /\ Len(reIn) < MaxRtcp
    /\ reIn' = Append(reIn, pkt)
    /\ LET out == RtcpForward(pkt, mediaType, mediaSsrc, elapsed)
           n == Len(reIn) + 1 IN
       IF out = <<>>
       THEN UNCHANGED <<ptChan, reLost>>
       ELSE IF RtcpReceiverAlive
            THEN /\ ptChan' = Append(ptChan,
                                  [pkt |-> out[1], n |-> n, at |-> elapsed])
                 /\ UNCHANGED reLost
            ELSE /\ reLost' = reLost \cup {n}
                 /\ UNCHANGED ptChan
    /\ UNCHANGED <<reLoop, elapsed, mediaType, mediaSsrc, ptWritten, ptStop,
                   ptClosed, ptHandle, wlPc, xRtcp>>

\* rtcp_event_loop: read_rtcp returned Err
RtcpLoopEnd ==
    /\ reLoop = "running"
    /\ reLoop' = "ended"
    /\ UNCHANGED <<reIn, reLost, elapsed, mediaType, mediaSsrc, ptChan,
                   ptWritten, ptStop, ptClosed, ptHandle, wlPc, xRtcp>>

\* rtcp_writer_loop, branch rtcp_receiver.recv(): pc.write_rtcp(&[data])
WriterRecv ==
    /\ wlPc = "select"
    /\ ptChan # <<>>
    /\ ptWritten' = Append(ptWritten, Head(ptChan))
    /\ ptChan' = Tail(ptChan)
    /\ UNCHANGED <<reLoop, reIn, reLost, elapsed, mediaType, mediaSsrc, ptStop,
                   ptClosed, ptHandle, wlPc, xRtcp>>

\* a stop branch that is never ready
StopReady_Never == FALSE

\* stop_receiver.recv() is ready: a message of close(), or None once the
\* stop sender is gone with the transport
StopReady == ptStop > 0 \/ ~ptHandle

\* rtcp_writer_loop, branch stop_receiver.recv(): the loop returns
WriterStop ==
    /\ wlPc = "select"
    /\ StopReady
    /\ wlPc' = "stopped"
    /\ ptStop' = IF ptStop > 0 THEN ptStop - 1 ELSE ptStop
    /\ UNCHANGED <<reLoop, reIn, reLost, elapsed, mediaType, mediaSsrc, ptChan,
                   ptWritten, ptClosed, ptHandle, xRtcp>>

\* PublishTransport::close: stop_sender_channel.send(()), then the peer
\* connection is closed
PublishTransportClose ==
    /\ ptHandle
    /\ ~ptClosed
    /\ ptClosed' = TRUE
    /\ ptStop' = ptStop + 1
    /\ UNCHANGED <<reLoop, reIn, reLost, elapsed, mediaType, mediaSsrc, ptChan,
                   ptWritten, ptHandle, wlPc, xRtcp>>

\* the application lets go of the PublishTransport
PublishTransportDrop ==
    /\ ptHandle
    /\ ptHandle' = FALSE
    /\ UNCHANGED <<reLoop, reIn, reLost, elapsed, mediaType, mediaSsrc, ptChan,
                   ptWritten, ptStop, ptClosed, wlPc, xRtcp>>

\* --------------------------------------- the extmap rewrite of an offer
ExtUris == {"toffset", "abs-send-time"}
ExtIds == 1..MaxExtId

\* a=extmap:<id> <url>
Extmap(id, url) == [type |-> "extmap", id |-> id, url |-> url]
\* any other attribute of a media section
OtherAttribute(name) == [type |-> name, id |-> 0, url |-> ""]
\* RTCRtpHeaderExtensionParameters { uri, id }
HeaderExtension(uri, id) == [uri |-> uri, id |-> id]

\* sequences of at most MaxExtmaps extmap attributes with distinct urls and ids
ExtmapSeqs ==
    UNION {{q \in [1..n -> {Extmap(i, u) : i \in 1..MaxExtmaps, u \in ExtUris}] :
              \A a, b \in 1..n : a # b => q[a].url # q[b].url /\ q[a].id # q[b].id}
           : n \in 0..MaxExtmaps}

\* a=msid: absent, without appdata, or with a track id as appdata
Msids ==
    {[present |-> FALSE, appdata |-> NoId], [present |-> TRUE, appdata |-> NoId]}
    \cup {[present |-> TRUE, appdata |-> t] : t \in TrackIds}

MediaSections ==
    {[msid |-> m,
      attrs |-> <<OtherAttribute("mid")>> \o q \o <<OtherAttribute("rtcp-mux")>>]
       : m \in Msids, q \in ExtmapSeqs}

\* the media sections of a local description
Sessions == UNION {[1..n -> MediaSections] : n \in 1..MaxSections}

\* the header extensions of one publisher: distinct uris, ascending ids
HeaderExtensionLists ==
    UNION {{q \in [1..n -> {HeaderExtension(u, i) : u \in ExtUris, i \in ExtIds \ {1}}] :
              \A a, b \in 1..n : a < b => q[a].uri # q[b].uri /\ q[a].id < q[b].id}
           : n \in 0..2}

\* the replies of the Router: the publishers known to it, here at most "v1"
PublishersExtmaps ==
    {EmptyMap} \cup {[t \in {"v1"} |-> l] : l \in HeaderExtensionLists}

OfferInit ==
    /\ exIn = <<>>
    /\ exMap = EmptyMap
    /\ exOut = <<>>
    /\ exDone = FALSE

ExtmapsOf(attrs) == SelectSeq(attrs, LAMBDA a : a.type = "extmap")

\* a lookup that takes the last extension with that uri
RECURSIVE find_extmap_order_Last(_, _)
find_extmap_order_Last(url, extmaps) ==
    IF extmaps = <<>> THEN None
    ELSE LET r == find_extmap_order_Last(url, Tail(extmaps)) IN
         IF r.some THEN r
         ELSE IF Head(extmaps).uri = url THEN Some(Head(extmaps).id) ELSE None

\* a lookup that numbers the extension by its place in the publisher's list
RECURSIVE find_extmap_order_Place(_, _)
find_extmap_order_Place(url, extmaps) ==
    IF extmaps = <<>> THEN None
    ELSE IF Head(extmaps).uri = url THEN Some(1)
    ELSE LET r == find_extmap_order_Place(url, Tail(extmaps)) IN
         IF r.some THEN Some(r.val + 1) ELSE None

\* the id of the first extension with that uri, if it fits a u16
RECURSIVE find_extmap_order(_, _)
find_extmap_order(url, extmaps) ==
    IF extmaps = <<>> THEN None
    ELSE IF Head(extmaps).uri = url
         THEN IF Head(extmaps).id \in 0..(2^16 - 1)
              THEN Some(Head(extmaps).id) ELSE None
    ELSE find_extmap_order(url, Tail(extmaps))

\* for attr in found_attr: add it again with the publisher's id, if any
RECURSIVE ReAddExtmaps(_, _)
ReAddExtmaps(found, extmaps) ==
    IF found = <<>> THEN <<>>
    ELSE LET order == find_extmap_order(Head(found).url, extmaps) IN
         (IF order.some THEN <<[Head(found) EXCEPT !.id = order.val]>> ELSE <<>>)
         \o ReAddExtmaps(Tail(found), extmaps)

\* remove_attribute(Extmap) and the loop over found_attr
AdjustMedia(media, extmaps) ==
    [media EXCEPT !.attrs =
        SelectSeq(media.attrs, LAMBDA a : a.type # "extmap")
        \o ReAddExtmaps(ExtmapsOf(media.attrs), extmaps)]

\* a lookup that answers an unknown track with an empty list
PublisherExtmap_Default(publishers_extmap, track_id) ==
    [some |-> TRUE,
     val |-> IF track_id \in DOMAIN publishers_extmap
             THEN publishers_extmap[track_id] ELSE <<>>]

\* publishers_extmap.get(&track_id)
PublisherExtmap(publishers_extmap, track_id) ==
    IF track_id \in DOMAIN publishers_extmap
    THEN [some |-> TRUE, val |-> publishers_extmap[track_id]]
    ELSE [some |-> FALSE, val |-> <<>>]

\* SubscribeTransport::adjust_extmap on a description that parses
adjust_extmap(session, publishers_extmap) ==
    [i \in 1..Len(session) |->
        LET media == session[i] IN
        IF ~media.msid.present THEN media
        ELSE IF media.msid.appdata = NoId THEN media
        ELSE LET extmaps == PublisherExtmap(publishers_extmap, media.msid.appdata) IN
             IF ~extmaps.some THEN media
             ELSE AdjustMedia(media, extmaps.val)]

\* create_offer: the local description goes through adjust_extmap with the
\* Router's reply
CreateOfferAdjust ==
    /\ ~exDone
    /\ \E session \in Sessions, reply \in PublishersExtmaps :
          /\ exIn' = session
          /\ exMap' = reply
          /\ exOut' = adjust_extmap(session, reply)
    /\ exDone' = TRUE
    /\ UNCHANGED xOffer

\* ------------------------------------- one DataSubscriber and its source
DataChannelStates == {"Connecting", "Open", "Closing", "Closed"}

DataInit ==
    /\ dpAlive = TRUE
    /\ dpSent = 0
    /\ dsPc = "none"
    /\ dsQueue = <<>>
    /\ dsLag = FALSE
    /\ dcState = "Connecting"
    /\ dsSent = <<>>
    /\ dsSkipped = {}
    /\ dsTransportClosed = 0
    /\ dsSubClosed = 0
    /\ dsCloseCalled = FALSE

\* who holds a broadcast::Sender of the source: the DataPublisher with its
\* on_message handler, and the subscriber task, which captured data_sender
\* and keeps it until data_event_loop returns
DataSenders ==
    (IF dpAlive THEN {"publisher"} ELSE {})
    \cup (IF dsPc = "select" THEN {"task"} ELSE {})

\* DataSubscriber::new: the task subscribes to data_sender and enters the loop
DsNew ==
    /\ dsPc = "none"
    /\ dpAlive
    /\ dsPc' = "select"
    /\ UNCHANGED <<dpAlive, dpSent, dsQueue, dsLag, dcState, dsSent, dsSkipped,
                   dsTransportClosed, dsSubClosed, dsCloseCalled, xData>>

\* DataPublisher's on_message handler: data_sender.send(msg)
DsPublish ==
    /\ dpAlive
    /\ dpSent < MaxMessages
    /\ dpSent' = dpSent + 1
    /\ IF dsPc = "select"
       THEN /\ dsQueue' = BroadcastSend(dsQueue, dpSent + 1)
            /\ dsLag' = (dsLag \/ Len(dsQueue) = MaxBuffered)
       ELSE UNCHANGED <<dsQueue, dsLag>>
    /\ UNCHANGED <<dpAlive, dsPc, dcState, dsSent, dsSkipped, dsTransportClosed,
                   dsSubClosed, dsCloseCalled, xData>>

\* the source data channel closes and the DataPublisher is dropped
DsPublisherDrop ==
    /\ dpAlive
    /\ dpAlive' = FALSE
    /\ UNCHANGED <<dpSent, dsPc, dsQueue, dsLag, dcState, dsSent, dsSkipped,
                   dsTransportClosed, dsSubClosed, dsCloseCalled, xData>>

\* the egress data channel moves on in its life
DsChannelState ==
    /\ dsPc # "none"
    /\ dcState # "Closed"
    /\ dcState' = CASE dcState = "Connecting" -> "Open"
                    [] dcState = "Open" -> "Closing"
                    [] OTHER -> "Closed"
    /\ UNCHANGED <<dpAlive, dpSent, dsPc, dsQueue, dsLag, dsSent, dsSkipped,
                   dsTransportClosed, dsSubClosed, dsCloseCalled, xData>>

\* a loop that writes to the channel in every state but Closed
DataChannelWritable_Any(state) == state # "Closed"

\* match state { RTCDataChannelState::Open => send, _ => warn }
DataChannelWritable(state) == state = "Open"

\* data_event_loop, branch data_receiver.recv(): Ok(res) is sent if the
\* channel is open and skipped otherwise; Err(Lagged) and Err(Closed) break
DsRecv ==
    /\ dsPc = "select"
    /\ dsLag \/ dsQueue # <<>> \/ DataSenders = {}
    /\ IF dsLag \/ dsQueue = <<>>
       THEN /\ dsPc' = "done"
            /\ UNCHANGED <<dsQueue, dsSent, dsSkipped>>
       ELSE /\ dsQueue' = Tail(dsQueue)
            /\ IF DataChannelWritable(dcState)
               THEN /\ dsSent' = Append(dsSent, Head(dsQueue))
                    /\ UNCHANGED dsSkipped
               ELSE /\ dsSkipped' = dsSkipped \cup {Head(dsQueue)}
                    /\ UNCHANGED dsSent
            /\ UNCHANGED dsPc
    /\ UNCHANGED <<dpAlive, dpSent, dsLag, dcState, dsTransportClosed,
                   dsSubClosed, dsCloseCalled, xData>>

\* data_event_loop, branch transport_closed.recv(): break
DsTransportClosed ==
    /\ dsPc = "select"
    /\ dsTransportClosed > 0
    /\ dsTransportClosed' = dsTransportClosed - 1
    /\ dsPc' = "done"
    /\ UNCHANGED <<dpAlive, dpSent, dsQueue, dsLag, dcState, dsSent, dsSkipped,
                   dsSubClosed, dsCloseCalled, xData>>

\* data_event_loop, branch subscriber_closed.recv(): break
DsSubscriberClosed ==
    /\ dsPc = "select"
    /\ dsSubClosed > 0
    /\ dsSubClosed' = dsSubClosed - 1
    /\ dsPc' = "done"
    /\ UNCHANGED <<dpAlive, dpSent, dsQueue, dsLag, dcState, dsSent, dsSkipped,
                   dsTransportClosed, dsCloseCalled, xData>>

\* SubscribeTransport::close: closed_sender.send(true)
DsTransportClose ==
    /\ dsPc # "none"
    /\ dsTransportClosed = 0
    /\ dsTransportClosed' = 1
    /\ UNCHANGED <<dpAlive, dpSent, dsPc, dsQueue, dsLag, dcState, dsSent,
                   dsSkipped, dsSubClosed, dsCloseCalled, xData>>

\* DataSubscriber::close: send(true) unless the loop's receiver is gone,
\* then data_channel.close()
DsClose ==
    /\ dsPc # "none"
    /\ ~dsCloseCalled
    /\ dsCloseCalled' = TRUE
    /\ dsSubClosed' = IF dsPc = "done" THEN dsSubClosed ELSE dsSubClosed + 1
    /\ dcState' = "Closed"
    /\ UNCHANGED <<dpAlive, dpSent, dsPc, dsQueue, dsLag, dsSent, dsSkipped,
                   dsTransportClosed, xData>>

\* ------------------------- data publishers in the Router, and its replies
DataPubs == 1..MaxDataPubs

\* RouterEvent::{DataPublished, DataRemoved, GetPublisher, GetDataPublisher,
\* Closed}; id is the data publisher or track asked for, reply the caller
DataEvent(kind, id, reply) == [kind |-> kind, id |-> id, reply |-> reply]

RdInit ==
    /\ rdEvents = <<>>
    /\ data_publishers = {}
    /\ rdLoop = "running"
    /\ rdClosed = FALSE
    /\ dcLife = [d \in DataPubs |-> "new"]
    /\ ohPc = [d \in DataPubs |-> "none"]
    /\ dcOnClose = [d \in DataPubs |-> FALSE]
    /\ rdDone = [d \in DataPubs |-> {}]
    /\ scPc = [c \in Callers |-> "idle"]
    /\ scKind = [c \in Callers |-> "none"]
    /\ scWant = [c \in Callers |-> 0]
    /\ scReply = [c \in Callers |-> "none"]

\* Router::data_publisher_ids
data_publisher_ids == data_publishers

\* router_event_sender.send(event) with the result ignored: the event is
\* queued while the loop owns the receiver
RouterSend(q, e) == IF rdLoop = "running" THEN Append(q, e) ELSE q

\* the remote data channel opens: the peer connection runs the on_open
\* handler installed by on_data_channel
DcOpen(d) ==
    /\ dcLife[d] = "new"
    /\ \A j \in DataPubs : j < d => dcLife[j] # "new"
    /\ dcLife' = [dcLife EXCEPT ![d] = "open"]
    /\ ohPc' = [ohPc EXCEPT ![d] = "start"]
    /\ UNCHANGED <<rdEvents, data_publishers, rdLoop, rdClosed, dcOnClose,
                   rdDone, scPc, scKind, scWant, scReply, xRd>>

\* on_open handler: DataPublisher::new registers on_close and on_message
OnOpenNew(d) ==
    /\ ohPc[d] = "start"
    /\ ohPc' = [ohPc EXCEPT ![d] = "created"]
    /\ dcOnClose' = [dcOnClose EXCEPT ![d] = TRUE]
    /\ UNCHANGED <<rdEvents, data_publishers, rdLoop, rdClosed, dcLife, rdDone,
                   scPc, scKind, scWant, scReply, xRd>>

\* on_open handler: data_published_sender.send, then
\* router_sender.send(RouterEvent::DataPublished(data_publisher))
OnOpenPublished(d) ==
    /\ ohPc[d] = "created"
    /\ ohPc' = [ohPc EXCEPT ![d] = "done"]
    /\ rdEvents' = RouterSend(rdEvents, DataEvent("DataPublished", d, 0))
    /\ UNCHANGED <<data_publishers, rdLoop, rdClosed, dcLife, dcOnClose, rdDone,
                   scPc, scKind, scWant, scReply, xRd>>

\* the data channel closes: the on_close handler, if one is registered by
\* now, sends RouterEvent::DataRemoved(cloned_id)
DcClose(d) ==
    /\ dcLife[d] = "open"
    /\ dcLife' = [dcLife EXCEPT ![d] = "closed"]
    /\ rdEvents' = IF dcOnClose[d]
                   THEN RouterSend(rdEvents, DataEvent("DataRemoved", d, 0))
                   ELSE rdEvents
    /\ UNCHANGED <<data_publishers, rdLoop, rdClosed, ohPc, dcOnClose, rdDone,
                   scPc, scKind, scWant, scReply, xRd>>

\* the callers whose request is still in the queue
QueuedCallers(q) == {q[i].reply : i \in {j \in DOMAIN q : q[j].reply # 0}}

\* one iteration of router_event_loop on the oldest event; Closed leaves the
\* loop, and the receiver is dropped with whatever is still queued
RouterDataStep ==
    /\ rdLoop = "running"
    /\ rdEvents # <<>>
    /\ LET e == Head(rdEvents) IN
       CASE e.kind = "DataPublished" ->
              /\ data_publishers' = data_publishers \cup {e.id}
              /\ rdDone' = [rdDone EXCEPT ![e.id] = @ \cup {e.kind}]
              /\ rdEvents' = Tail(rdEvents)
              /\ UNCHANGED <<rdLoop, scReply>>
         [] e.kind = "DataRemoved" ->
              /\ data_publishers' = data_publishers \ {e.id}
              /\ rdDone' = [rdDone EXCEPT ![e.id] = @ \cup {e.kind}]
              /\ rdEvents' = Tail(rdEvents)
              /\ UNCHANGED <<rdLoop, scReply>>
         [] e.kind = "GetDataPublisher" ->
              /\ scReply' = [scReply EXCEPT ![e.reply] =
                               IF e.id \in data_publishers THEN "some" ELSE "absent"]
              /\ rdEvents' = Tail(rdEvents)
              /\ UNCHANGED <<data_publishers, rdDone, rdLoop>>
         [] e.kind = "GetPublisher" ->
              /\ scReply' = [scReply EXCEPT ![e.reply] = "absent"]
              /\ rdEvents' = Tail(rdEvents)
              /\ UNCHANGED <<data_publishers, rdDone, rdLoop>>
         [] OTHER ->
              /\ rdLoop' = "ended"
              /\ rdEvents' = <<>>
              /\ scReply' = [c \in Callers |->
                               IF c \in QueuedCallers(Tail(rdEvents))
                               THEN "dropped" ELSE scReply[c]]
              /\ UNCHANGED <<data_publishers, rdDone>>
    /\ UNCHANGED <<rdClosed, dcLife, ohPc, dcOnClose, scPc, scKind, scWant, xRd>>

\* Router::close: let _ = router_event_sender.send(RouterEvent::Closed)
RouterClose ==
    /\ ~rdClosed
    /\ rdClosed' = TRUE
    /\ rdEvents' = RouterSend(rdEvents, DataEvent("Closed", 0, 0))
    /\ UNCHANGED <<data_publishers, rdLoop, dcLife, ohPc, dcOnClose, rdDone,
                   scPc, scKind, scWant, scReply, xRd>>

\* subscribe / data_subscribe: the request goes to the Router with a oneshot
\* sender; a send that fails drops the event and the sender in it
RdCall(c, kind, id) ==
    /\ scPc[c] = "idle"
    /\ \A j \in Callers : j < c => scPc[j] # "idle"
    /\ scPc' = [scPc EXCEPT ![c] = "wait"]
    /\ scKind' = [scKind EXCEPT ![c] = kind]
    /\ scWant' = [scWant EXCEPT ![c] = id]
    /\ rdEvents' = RouterSend(rdEvents,
          DataEvent(IF kind = "subscribe" THEN "GetPublisher"
                    ELSE "GetDataPublisher", id, c))
    /\ scReply' = [scReply EXCEPT ![c] =
                     IF rdLoop = "running" THEN "pending" ELSE "dropped"]
    /\ UNCHANGED <<data_publishers, rdLoop, rdClosed, dcLife, ohPc, dcOnClose,
                   rdDone, xRd>>

\* let reply = rx.await.unwrap(): None becomes the typed not-found error,
\* a dropped sender makes unwrap panic
RdAwait(c) ==
    /\ scPc[c] = "wait"
    /\ scReply[c] # "pending"
    /\ scPc' = [scPc EXCEPT ![c] =
                  CASE scReply[c] = "some" -> "ok"
                    [] scReply[c] = "absent" -> "error"
                    [] OTHER -> "panic"]
    /\ UNCHANGED <<rdEvents, data_publishers, rdLoop, rdClosed, dcLife, ohPc,
                   dcOnClose, rdDone, scKind, scWant, scReply, xRd>>

\* ------------------------------- router_event_loop and the order of events
Closed == RouterEvent("Closed", 0, NoId, 0)

\* what the transports send: TrackPublished, TrackRemoved, GetPublisher
TransportEvents ==
    {RouterEvent("TrackPublished", p, id, 0) : p \in Pubs, id \in TrackIds}
    \cup {RouterEvent("TrackRemoved", 0, id, 0) : id \in TrackIds}
    \cup {RouterEvent("GetPublisher", 0, id, 0) : id \in TrackIds}

LoopInit ==
    /\ rlSent = <<>>
    /\ rlQueue = <<>>
    /\ rlMap = EmptyMap
    /\ rlApplied = <<>>
    /\ rlReply = EmptyMap
    /\ rlLoop = "running"

\* UnboundedSender::send: the event joins the queue while the loop owns the
\* receiver, and is handed back (and dropped) afterwards
LoopEnqueue(q, n) == IF rlLoop = "running" THEN Append(q, n) ELSE q

\* a transport sends an event on its clone of router_event_sender
LoopSend(e) ==
    /\ Len(rlSent) < MaxSent
    /\ rlSent' = Append(rlSent, e)
    /\ rlQueue' = LoopEnqueue(rlQueue, Len(rlSent) + 1)
    /\ UNCHANGED <<rlMap, rlApplied, rlReply, rlLoop, xLoop>>

\* Router::close: let _ = self.router_event_sender.send(RouterEvent::Closed)
LoopClose ==
    /\ Len(rlSent) < MaxSent
    /\ rlSent' = Append(rlSent, Closed)
    /\ rlQueue' = LoopEnqueue(rlQueue, Len(rlSent) + 1)
    /\ UNCHANGED <<rlMap, rlApplied, rlReply, rlLoop, xLoop>>

\* a channel that hands out the event sent last
LoopNext_Newest(q) == q[Len(q)]

\* event_receiver.recv().await: the event sent first
LoopNext(q) == Head(q)

\* a loop that goes on after Closed
LoopBreaks_Never(e) == FALSE

\* RouterEvent::Closed => break
LoopBreaks(e) == e.kind = "Closed"

\* one iteration of router_event_loop; after the break the receiver is
\* dropped with the events still queued
LoopStep ==
    /\ rlLoop = "running"
    /\ rlQueue # <<>>
    /\ LET n == LoopNext(rlQueue)
           e == rlSent[n] IN
       /\ rlApplied' = Append(rlApplied, n)
       /\ IF LoopBreaks(e)
          THEN /\ rlLoop' = "ended"
               /\ rlQueue' = <<>>
               /\ UNCHANGED <<rlMap, rlReply>>
          ELSE /\ rlQueue' = SelectSeq(rlQueue, LAMBDA i : i # n)
               /\ rlMap' = RouterApply(rlMap, e)
               /\ rlReply' = IF e.kind = "GetPublisher"
                             THEN [i \in DOMAIN rlReply \cup {n} |->
                                     IF i = n THEN RouterGet(rlMap, e.id)
                                     ELSE rlReply[i]]
                             ELSE rlReply
               /\ UNCHANGED rlLoop
    /\ UNCHANGED <<rlSent, xLoop>>

\* ----------------------------------- the offers handed to the application
OfferPaths == {"subscribe", "data_subscribe", "negotiation_needed"}

HandInit ==
    /\ hoPath = NoId
    /\ hoAt = 0
    /\ hoRaw = <<>>
    /\ hoOffer = <<>>
    /\ hoLocal = <<>>
    /\ hoReply = EmptyMap
    /\ hoFetched = FALSE
    /\ hoHanded = <<>>
    /\ hoEnd = NoId

\* a callback that hands the local description of the offer as created
OfferSteps_Unadjusted(path) ==
    IF path = "negotiation_needed"
    THEN <<"fetch", "create", "local", "hand">>
    ELSE <<"create", "local", "fetch", "adjust", "hand">>

\* the steps between the start of an offer and its hand-over: create_offer
\* (called by subscribe and data_subscribe) sets the local description
\* first and adjusts what local_description() returns; the
\* negotiation-needed callback fetches first and sets the adjusted offer
OfferSteps(path) ==
    IF path = "negotiation_needed"
    THEN <<"fetch", "create", "adjust", "local", "hand">>
    ELSE <<"create", "local", "fetch", "adjust", "hand">>

OfferAt(step) ==
    /\ hoAt \in 1..Len(OfferSteps(hoPath))
    /\ OfferSteps(hoPath)[hoAt] = step

\* subscribe or data_subscribe reaches create_offer, or the callback has
\* passed its checks of the peer connection
OfferStart(path) ==
    /\ hoAt = 0
    /\ hoPath' = path
    /\ hoAt' = 1
    /\ UNCHANGED <<hoRaw, hoOffer, hoLocal, hoReply, hoFetched, hoHanded,
                   hoEnd, xHand>>

\* the step failed: create_offer returns the Err, the callback panics in
\* expect()
OfferFail ==
    /\ hoAt' = Len(OfferSteps(hoPath)) + 1
    /\ hoEnd' = IF hoPath = "negotiation_needed" THEN "panic" ELSE "Err"

\* peer_connection.create_offer(Some(offer_options)).await
OfferCreate ==
    /\ OfferAt("create")
    /\ \/ \E session \in Sessions :
            /\ hoRaw' = session
            /\ hoOffer' = session
            /\ hoAt' = hoAt + 1
            /\ UNCHANGED hoEnd
       \/ OfferFail /\ UNCHANGED <<hoRaw, hoOffer>>
    /\ UNCHANGED <<hoPath, hoLocal, hoReply, hoFetched, hoHanded, xHand>>

\* set_local_description(offer), gathering_complete.recv(), and
\* local_description(), which becomes `offer`
OfferLocal ==
    /\ OfferAt("local")
    /\ \/ /\ hoLocal' = hoOffer
          /\ hoAt' = hoAt + 1
          /\ UNCHANGED hoEnd
       \/ OfferFail /\ UNCHANGED hoLocal
    /\ UNCHANGED <<hoPath, hoRaw, hoOffer, hoReply, hoFetched, hoHanded, xHand>>

\* send(RouterEvent::GetPublishersExtmap(tx)); rx.await.unwrap(): the
\* Router's reply, or a panic when the Router's loop has dropped the sender
OfferFetch ==
    /\ OfferAt("fetch")
    /\ \/ \E reply \in PublishersExtmaps :
            /\ hoReply' = reply
            /\ hoFetched' = TRUE
            /\ hoAt' = hoAt + 1
            /\ UNCHANGED hoEnd
       \/ /\ hoAt' = Len(OfferSteps(hoPath)) + 1
          /\ hoEnd' = "panic"
          /\ UNCHANGED <<hoReply, hoFetched>>
    /\ UNCHANGED <<hoPath, hoRaw, hoOffer, hoLocal, hoHanded, xHand>>

\* let offer = Self::adjust_extmap(offer, reply)
OfferAdjust ==
    /\ OfferAt("adjust")
    /\ hoOffer' = adjust_extmap(hoOffer, hoReply)
    /\ hoAt' = hoAt + 1
    /\ UNCHANGED <<hoPath, hoRaw, hoLocal, hoReply, hoFetched, hoHanded,
                   hoEnd, xHand>>

\* Ok(offer) of create_offer, returned by subscribe or data_subscribe;
\* (locked)(offer) of the callback, which passes local_description()
OfferHand ==
    /\ OfferAt("hand")
    /\ hoHanded' = Append(hoHanded,
                          IF hoPath = "negotiation_needed" THEN hoLocal
                          ELSE hoOffer)
    /\ hoAt' = hoAt + 1
    /\ hoEnd' = "Ok"
    /\ UNCHANGED <<hoPath, hoRaw, hoOffer, hoLocal, hoReply, hoFetched, xHand>>

\* ----------------------------- a publisher's list that repeats a URI
\* the header extensions of one publisher, in any order, URIs and ids
\* repeated or not
ListedExtensions ==
    UNION {[1..n -> {HeaderExtension(u, i) : u \in ExtUris, i \in ExtIds}]
           : n \in 0..MaxListed}

DupInit ==
    /\ fdIn = <<>>
    /\ fdList = <<>>
    /\ fdOut = <<>>
    /\ fdDone = FALSE

\* adjust_extmap on an offer with one media section of track "v1" and the
\* reply { "v1": list }
AdjustListed ==
    /\ ~fdDone
    /\ \E q \in ExtmapSeqs, list \in ListedExtensions :
          LET media == [msid |-> [present |-> TRUE, appdata |-> "v1"],
                        attrs |-> <<OtherAttribute("mid")>> \o q] IN
          /\ fdIn' = media
          /\ fdList' = list
          /\ fdOut' = adjust_extmap(<<media>>, [t \in {"v1"} |-> list])[1]
    /\ fdDone' = TRUE
    /\ UNCHANGED xDup

\* ------------------------------ subscribe after publish has returned
\* the application calls subscribe(id) once a publish(id) has returned
SubscribeAfterPublish(s, id) ==
    /\ \E c \in Callers : pbPc[c] = "returned" /\ pbWant[c] = id
    /\ SubscribeCall(s, id)

\* ------------------------------------- data_subscribe and its offer
DsigInit ==
    /\ dqPc = "idle"
    /\ dqResult = NoId
    /\ dqOffers = 0

\* data_subscribe(id): router_event_sender.send(GetDataPublisher(id, tx))
DataSubscribeCall ==
    /\ dqPc = "idle"
    /\ pcState # "dropped"
    /\ dqPc' = "sent"
    /\ UNCHANGED <<dqResult, dqOffers, xDsig>>

\* let reply = rx.await.unwrap(); match reply { None => Err(..), Some(..) }
DataSubscribeMatch ==
    /\ dqPc = "sent"
    /\ \E found \in BOOLEAN :
          IF found
          THEN dqPc' = "data" /\ UNCHANGED dqResult
          ELSE dqPc' = "done" /\ dqResult' = "DataChannelNotFoundError"
    /\ UNCHANGED <<dqOffers, xDsig>>

\* let data_subscriber = self.subscribe_data(data_publisher).await?;
DataSubscribeData ==
    /\ dqPc = "data"
    /\ \E ok \in PcOutcomes :
          IF ok
          THEN dqPc' = "offer" /\ UNCHANGED dqResult
          ELSE dqPc' = "done" /\ dqResult' = "Err"
    /\ UNCHANGED <<dqOffers, xDsig>>

\* let offer = self.create_offer().await?; Ok((data_subscriber, offer))
DataSubscribeOffer ==
    /\ dqPc = "offer"
    /\ \E ok \in PcOutcomes :
          /\ dqResult' = IF ok THEN "Ok" ELSE "Err"
          /\ dqOffers' = IF ok THEN dqOffers + 1 ELSE dqOffers
    /\ dqPc' = "done"
    /\ UNCHANGED xDsig

DataSubscribeStep ==
    \/ DataSubscribeMatch
    \/ DataSubscribeData
    \/ DataSubscribeOffer

\* ----------------- two DataSubscribers of one SubscribeTransport, each
\* ----------------- forwarding the messages of its own DataPublisher
DataLoops == 1..MaxDataLoops

PeerInit ==
    /\ dlPc = [d \in DataLoops |-> "none"]
    /\ dlQueue = [d \in DataLoops |-> 0]
    /\ dlClosed = [d \in DataLoops |-> 0]
    /\ dlTransportClosed = 0
    /\ dlGuard = {}

\* subscribe_data(data_publisher): DataSubscriber::new is given a clone of
\* the transport's closed_receiver and spawns the loop, which subscribes to
\* the data_sender of its own DataPublisher
SubscribeData(d) ==
    /\ dlPc[d] = "none"
    /\ dlPc' = [dlPc EXCEPT ![d] = "lock"]
    /\ UNCHANGED <<dlQueue, dlClosed, dlTransportClosed, dlGuard, xPeer>>

\* the on_message handler of the DataPublisher that loop d listens to
PublisherMessage(d) ==
    /\ dlPc[d] \in {"lock", "select", "send"}
    /\ dlQueue[d] < MaxQueue
    /\ dlQueue' = [dlQueue EXCEPT ![d] = @ + 1]
    /\ UNCHANGED <<dlPc, dlClosed, dlTransportClosed, dlGuard, xPeer>>

\* let mut transport_closed = transport_closed.lock().await;
\* let mut subscriber_closed = subscriber_closed.lock().await;
DataEventLoopLock(d) ==
    /\ dlPc[d] = "lock"
    /\ dlGuard = {}
    /\ dlGuard' = {d}
    /\ dlPc' = [dlPc EXCEPT ![d] = "select"]
    /\ UNCHANGED <<dlQueue, dlClosed, dlTransportClosed, xPeer>>

\* the branches of loop d's select! that are ready
DataEventLoopReady(d) ==
    {b \in {"transport_closed", "subscriber_closed", "message"} :
        CASE b = "transport_closed" -> dlTransportClosed > 0
          [] b = "subscriber_closed" -> dlClosed[d] > 0
          [] OTHER -> dlQueue[d] > 0}

\* one branch of tokio::select! { transport_closed.recv() => break,
\*     subscriber_closed.recv() => break, data_receiver.recv() => .. }
DataEventLoopBranch(d, b) ==
    /\ dlPc[d] = "select"
    /\ b \in DataEventLoopReady(d)
    /\ CASE b = "transport_closed" ->
               /\ dlTransportClosed' = dlTransportClosed - 1
               /\ dlGuard' = {}
               /\ dlPc' = [dlPc EXCEPT ![d] = "done"]
               /\ dlQueue' = [dlQueue EXCEPT ![d] = 0]
               /\ dlClosed' = [dlClosed EXCEPT ![d] = 0]
          [] b = "subscriber_closed" ->
               /\ dlGuard' = {}
               /\ dlPc' = [dlPc EXCEPT ![d] = "done"]
               /\ dlQueue' = [dlQueue EXCEPT ![d] = 0]
               /\ dlClosed' = [dlClosed EXCEPT ![d] = 0]
               /\ UNCHANGED dlTransportClosed
          [] OTHER ->
               /\ dlQueue' = [dlQueue EXCEPT ![d] = @ - 1]
               /\ dlPc' = [dlPc EXCEPT ![d] = "send"]
               /\ UNCHANGED <<dlTransportClosed, dlGuard, dlClosed>>
    /\ UNCHANGED xPeer

\* data_channel.send(&data).await; the iteration ends, both guards drop
DataEventLoopSend(d) ==
    /\ dlPc[d] = "send"
    /\ dlGuard' = {}
    /\ dlPc' = [dlPc EXCEPT ![d] = "lock"]
    /\ UNCHANGED <<dlQueue, dlClosed, dlTransportClosed, xPeer>>

\* DataSubscriber::close of subscriber d: closed_sender.send(true) unless
\* the receiver is gone
DataSubscriberCloseOf(d) ==
    /\ dlPc[d] \in {"lock", "select", "send"}
    /\ dlClosed[d] = 0
    /\ dlClosed' = [dlClosed EXCEPT ![d] = 1]
    /\ UNCHANGED <<dlPc, dlQueue, dlTransportClosed, dlGuard, xPeer>>

\* SubscribeTransport::close: closed_sender.send(true)
TransportCloseSend ==
    /\ dlTransportClosed = 0
    /\ \E d \in DataLoops : dlPc[d] # "none"
    /\ dlTransportClosed' = 1
    /\ UNCHANGED <<dlPc, dlQueue, dlClosed, dlGuard, xPeer>>

\* ---------------------------------------------------------- specifications
Init ==
    /\ RouterInit /\ PubInit /\ SigInit /\ IceInit /\ FwdInit
    /\ PipeInit /\ RtcpInit /\ OfferInit /\ DataInit /\ RdInit
    /\ LoopInit /\ HandInit /\ DupInit
    /\ DsigInit
    /\ PeerInit

\* PublishTransports, their publish() callers and the Router
NextPub ==
    \/ \E p \in Pubs, t \in PTs, id \in TrackIds : OnTrackRaise(p, t, id)
    \/ \E p \in Pubs : OnTrackStep(p)
    \/ \E p \in Pubs : IngressEnd(p)
    \/ \E c \in Callers, t \in PTs, id \in TrackIds : PublishCall(c, t, id)
    \/ \E c \in Callers : PublishStep(c)
    \/ RouterStep

SpecPub == Init /\ [][NextPub]_vars

\* One PublishTransport, with the fairness of the runtime: every spawned
\* task that can take a step eventually takes it.  What the peer connection
\* and the application do (on_track raised, track closed, publish called) is
\* not forced.
NextPubOne ==
    \/ \E p \in Pubs, id \in TrackIds : OnTrackRaise(p, 1, id)
    \/ \E p \in Pubs : OnTrackStep(p)
    \/ \E p \in Pubs : IngressEnd(p)
    \/ \E c \in Callers, id \in TrackIds : PublishCall(c, 1, id)
    \/ \E c \in Callers : PublishStep(c)
    \/ RouterStep

FairSpecPub ==
    /\ Init
    /\ [][NextPubOne]_vars
    /\ \A p \in Pubs : WF_vars(OnTrackStep(p))
    /\ \A c \in Callers : WF_vars(PublishStep(c))
    /\ WF_vars(RouterStep)

\* One SubscribeTransport: subscribe() calls, negotiation-needed callbacks,
\* set_answer() calls and close(), with one track published to the Router
NextSig ==
    \/ OnTrackRaise(1, 1, "v1")
    \/ OnTrackStep(1)
    \/ IngressEnd(1)
    \/ RouterStep
    \/ \E s \in SubCalls, id \in TrackIds : SubscribeCall(s, id)
    \/ \E s \in SubCalls : SubscribeStep(s)
    \/ \E n \in NNs : NNFire(n)
    \/ \E n \in NNs : NNStep(n)
    \/ SetAnswerCall
    \/ SetAnswerStep
    \/ SubscribeTransportClose
    \/ SubscribeTransportDrop

SpecSig == Init /\ [][NextSig]_vars

\* The pending candidate buffers of a PublishTransport and a
\* SubscribeTransport
NextIce ==
    \/ \E c \in Cands, t \in IceTrs : AddIceCall(c, t)
    \/ \E c \in Cands : AddIceStep(c)
    \/ SetAnswerCall
    \/ SetAnswerStep
    \/ GetAnswerCall
    \/ GetAnswerStep

SpecIce == Init /\ [][NextIce]_vars

\* The forwarding loops of one SubscribeTransport
NextFwd ==
    \/ \E p \in Pubs : MediaTrackRead(p)
    \/ \E p \in Pubs : MediaTrackEnd(p)
    \/ \E p \in Pubs : MediaTrackDrop(p)
    \/ \E k \in RtpKids, p \in Pubs : SubscribeTrackSpawn(k, p)
    \/ \E k \in RtpKids : RtpStep(k)
    \/ \E d \in DataKids : DataSubscriberNew(d)
    \/ DataMessage
    \/ \E d \in DataKids : DataStep(d)
    \/ \E d \in DataKids : DataSubscriberClose(d)
    \/ SubscribeTransportClose

SpecFwd == Init /\ [][NextFwd]_vars

\* The runtime schedules every spawned loop that can take a step, the
\* mutex is handed to every waiter in turn, and select! does not pass over a
\* ready branch for ever; a MediaTrack whose ingress has ended is released
\* by the Router and the application.  Packets, messages, the end of a
\* track and the closes of DataSubscribers and of the transport are not
\* forced.
FairSpecFwd ==
    /\ Init
    /\ [][NextFwd]_vars
    /\ \A p \in Pubs : WF_vars(MediaTrackDrop(p))
    /\ \A k \in RtpKids :
          /\ WF_vars(RtpStep(k))
          /\ SF_vars(RtpLock(k))
          /\ SF_vars(RtpBranch(k, "closed"))
    /\ \A d \in DataKids :
          /\ WF_vars(DataStep(d))
          /\ SF_vars(DataLock(d))
          /\ SF_vars(DataBranch(d, "transport_closed"))
          /\ SF_vars(DataBranch(d, "subscriber_closed"))

\* ------------------------------------------------------------------ claims
\* C1 (as claimed): once an offer has been generated by subscribe or by the
\* negotiation-needed callback, no further offer is generated on the
\* transport until a set_answer has completed: at most one offer has been
\* generated since the last completed set_answer.
C1_Original == inflight <= 1

Constructed(p) == otPc[p] \in {"announce", "register", "await"}

\* C2 (as claimed): publisher_ids() contains P.id from the moment P's
\* construction completes, hence also whenever publish(P.id) has returned P,
\* until P's ingress loop has emitted TrackRemoved(P.id).
C2_Original ==
    /\ \A p \in Pubs : Constructed(p) => pubId[p] \in publisher_ids
    /\ \A c \in Callers :
          (pbPc[c] = "returned" /\ otPc[pbGot[c]] # "done")
              => pubId[pbGot[c]] \in publisher_ids

\* C3: when the id was not in the Router's map as GetPublisher was handled,
\* subscribe returns TrackNotFoundError, and that call attaches no track,
\* generates no offer and never stores to signaling_pending.
C3_TrackNotFound ==
    \A s \in SubCalls :
        (sbReplied[s] /\ sbAbsent[s]) =>
            /\ sbPc[s] \in {"sent", "done"}
            /\ sbPc[s] = "done" => sbResult[s] = "TrackNotFoundError"
            /\ sbResult[s] # "Ok"
            /\ s \notin attached
            /\ ~sbClaimed[s]

C3_Witness ==
    \E s \in SubCalls :
        /\ sbPc[s] = "done"
        /\ sbAbsent[s]
        /\ sbResult[s] = "TrackNotFoundError"
        /\ signaling_pending

\* C4 (as claimed): after close() on the SubscribeTransport every child
\* forwarding loop, RTP writer or data loop, eventually terminates.
C4_Original ==
    (pcState = "closed") ~>
        (/\ \A k \in RtpKids : rkPc[k] \in {"none", "done"}
         /\ \A d \in DataKids : dkPc[d] \in {"none", "done"})

\* C5: a candidate added while there is no remote description is appended to
\* the pending buffer and is not passed to the peer connection before the
\* remote description is set; when set_answer (SubscribeTransport) or
\* get_answer (PublishTransport) has run its flush, every candidate in the
\* buffer has been passed to the peer connection.
C5_ParkedThenFlushed ==
    /\ \A c \in Cands :
          icePc[c] = "parked" =>
              /\ c \in Range(pending_candidates[iceTr[c]])
              /\ pcCands[c] > 0 => remoteDesc[iceTr[c]]
    /\ \A c \in Cands : icePc[c] = "park" => pcCands[c] = 0
    /\ saPc = "ret" =>
          \A c \in Range(pending_candidates["sub"]) : pcCands[c] >= 1
    /\ gaPc = "answer" =>
          \A c \in Range(pending_candidates["pub"]) : pcCands[c] >= 1

C5_Witness ==
    /\ saPc = "ret"
    /\ gaPc = "answer"
    /\ \E c, b \in Cands :
          /\ icePc[c] = "parked" /\ iceTr[c] = "sub" /\ pcCands[c] = 1
          /\ icePc[b] = "parked" /\ iceTr[b] = "pub" /\ pcCands[b] = 1

\* C6 (as claimed): when a set_answer that followed a subscribe which
\* returned an offer returns Ok, signaling_pending is false.
C6_Original ==
    [][(saPc = "ret" /\ saPc' = "idle" /\ saAfterOffer)
          => ~signaling_pending']_vars

\* C6 (amended): when a set_answer that followed a subscribe which returned
\* an offer returns Ok, signaling_pending is false unless a subscribe call or
\* a negotiation-needed callback has stored true since set_answer cleared it.
C6_Amended ==
    [][(saPc = "ret" /\ saPc' = "idle" /\ saAfterOffer /\ ~claimedSinceAnswer)
          => ~signaling_pending']_vars

C6_Witness ==
    /\ saPc = "idle"
    /\ saResult = "Ok"
    /\ saAfterOffer
    /\ ~claimedSinceAnswer
    /\ ~signaling_pending
    /\ \E s \in SubCalls : sbResult[s] = "Ok"

C8_Original ==
    /\ [](\A c \in Callers :
            pbPc[c] = "returned" => pubId[pbGot[c]] = pbWant[c])
    /\ \A c \in Callers : \A p \in Pubs :
          (pbPc[c] # "idle" /\ otPc[p] # "idle"
             /\ pubTr[p] = pbTr[c] /\ pubId[p] = pbWant[c])
              ~> (pbPc[c] = "returned")

\* C9: TrackRemoved(id) of a Publisher is sent after the TrackPublished of the
\* same Publisher, and right after the Router has handled a TrackRemoved(id)
\* publisher_ids() does not contain id.
C9_RemovedAfterPublished ==
    /\ \A p \in Pubs :
          otPc[p] = "done" =>
              \E i, j \in 1..Len(sentLog) :
                  /\ i < j
                  /\ sentLog[i] = <<"TrackPublished", p>>
                  /\ sentLog[j] = <<"TrackRemoved", p>>
    /\ \A j \in 1..Len(sentLog) :
          sentLog[j][1] = "TrackRemoved" =>
              \E i \in 1..(j - 1) : sentLog[i] = <<"TrackPublished", sentLog[j][2]>>
    /\ lastProcessed.kind = "TrackRemoved" => lastProcessed.id \notin publisher_ids

C9_Witness ==
    \E p \in Pubs :
        /\ otPc[p] = "done"
        /\ lastProcessed = TrackRemoved(pubId[p])
        /\ pubId[p] \notin publisher_ids

\* C10 (as claimed): when the publisher of a subscribed track has closed,
\* the RTP writer task of every subscriber attached to it eventually removes
\* its egress sender from the peer connection.
C10_Original ==
    \A k \in RtpKids :
        (rkPc[k] \notin {"none", "done"} /\ RtpSenderDropped(rkPub[k]))
            ~> (rkPc[k] = "done")

\* The packets of one publisher from its ingress loop to the egress tracks
NextPipe ==
    \/ \E t \in Timestamps : PipeRead(t)
    \/ PipeEnd
    \/ \E k \in RtpKids : PipeSubscribe(k)
    \/ \E k \in RtpKids : PipeForward(k)
    \/ \E k \in RtpKids : PipeStop(k)

SpecPipe == Init /\ [][NextPipe]_vars

\* C11: the packets written to one subscriber's egress track are packets
\* read on the ingress, in the order they were read and each at most once.
C11_Subsequence ==
    \A k \in RtpKids :
        /\ \A i \in 1..Len(rsOut[k]) : rsOut[k][i].seq \in 1..Len(mtRead)
        /\ \A i, j \in 1..Len(rsOut[k]) :
              i < j => rsOut[k][i].seq < rsOut[k][j].seq

C11_Witness ==
    \E k \in RtpKids :
        /\ Len(rsOut[k]) >= 2
        /\ rsOut[k][1].seq > 1
        /\ \E j \in RtpKids : j # k /\ rsLag[j] /\ rsPc[j] = "ended"

\* C12 (as claimed): every packet written to an egress track carries the
\* timestamp of the packet read from the remote track.
C12_Original ==
    \A k \in RtpKids :
        \A i \in 1..Len(rsOut[k]) : rsOut[k][i].ts = mtRead[rsOut[k][i].seq]

\* One subscriber's RTCP loop, the publisher's channel and its writer loop
NextRtcp ==
    \/ \E v \in BOOLEAN, s \in Ssrcs : RtcpLoopStart(v, s)
    \/ \E pkt \in RtcpInputs : RtcpReceive(pkt)
    \/ RtcpLoopEnd
    \/ WriterRecv
    \/ WriterStop
    \/ PublishTransportClose
    \/ PublishTransportDrop

SpecRtcp == Init /\ [][NextRtcp]_vars

\* the writer loop is scheduled, and select! takes a ready stop branch
FairSpecRtcp ==
    SpecRtcp /\ WF_vars(WriterRecv) /\ WF_vars(WriterStop)

\* the same with the clock of the subscriber's loop moving on
NextRemb == NextRtcp \/ RtcpTick

SpecRemb == Init /\ [][NextRemb]_vars

\* everything sent on the publisher's channel so far, written or waiting
RtcpSent == ptWritten \o ptChan
PliRead(n) == n <= Len(reIn) /\ reIn[n].kind = "pli"
PliQueued(n) == \E i \in 1..Len(ptChan) : ptChan[i].n = n /\ PliRead(n)
PliWritten(n) == \E i \in 1..Len(ptWritten) : ptWritten[i].n = n /\ PliRead(n)

\* C13 (as claimed): every PLI read from a subscriber's sender and queued on
\* the publisher's RTCP channel is eventually written to the publishing peer
\* connection by the writer loop.
C13_Original ==
    \A n \in 1..MaxRtcp : PliQueued(n) ~> PliWritten(n)

\* C13 (amended): for every PLI read, exactly one PLI with sender_ssrc = 0
\* and media_ssrc = the publisher's SSRC is sent on the publisher's channel,
\* and none is queued only when the channel has lost its receiver; a queued
\* one is eventually written unless the writer loop stops first.
C13_Amended ==
    /\ [](\A n \in 1..MaxRtcp : PliRead(n) =>
            LET hits == {i \in 1..Len(RtcpSent) : RtcpSent[i].n = n} IN
            IF n \in reLost
            THEN hits = {}
            ELSE /\ Cardinality(hits) = 1
                 /\ \A i \in hits :
                      RtcpSent[i].pkt = RtcpPacket("pli", 0, mediaSsrc, 0))
    /\ \A n \in 1..MaxRtcp :
          PliQueued(n) ~> (PliWritten(n) \/ wlPc = "stopped")

C13_Witness ==
    \E n \in 1..MaxRtcp :
        /\ PliWritten(n)
        /\ reIn[n].media_ssrc # mediaSsrc
        /\ reIn[n].sender_ssrc # 0

\* C14 (as claimed): a REMB read before 30 seconds have passed is forwarded
\* with bitrate max(b, 128000) on a video track and max(b, 64000) on an
\* audio track; one read later is forwarded with its bitrate b.
C14_Original ==
    \A i \in 1..Len(RtcpSent) :
        LET e == RtcpSent[i]
            b == reIn[e.n].bitrate
            floor == IF mediaType = "Video" THEN VideoFloor ELSE AudioFloor IN
        e.pkt.kind = "remb" =>
            e.pkt.bitrate = IF e.at < FloorSeconds /\ b < floor THEN floor ELSE b

\* adjust_extmap on the offers and replies create_offer can hand to it
NextOffer == CreateOfferAdjust

SpecOffer == Init /\ [][NextOffer]_vars

\* the section's msid names a track the reply has header extensions for
Rewritten(media) ==
    /\ media.msid.present
    /\ media.msid.appdata # NoId
    /\ media.msid.appdata \in DOMAIN exMap

\* C15: in a section whose msid appdata is a track id of the reply, every
\* extmap left has the id the publisher uses for its URI, and no extmap is
\* left whose URI the publisher's list does not have.
C15_PublisherIds ==
    exDone =>
      \A i \in 1..Len(exIn) :
        Rewritten(exIn[i]) =>
          LET list == exMap[exIn[i].msid.appdata]
              left == ExtmapsOf(exOut[i].attrs) IN
          \A j \in 1..Len(left) :
            \E k \in 1..Len(list) :
              list[k].uri = left[j].url /\ list[k].id = left[j].id

C15_Witness ==
    /\ exDone
    /\ \E i \in 1..Len(exIn) :
         /\ Rewritten(exIn[i])
         /\ Len(ExtmapsOf(exIn[i].attrs)) = 2
         /\ Len(ExtmapsOf(exOut[i].attrs)) = 1
         /\ ExtmapsOf(exOut[i].attrs)[1] \notin Range(exIn[i].attrs)
         /\ ExtmapsOf(exOut[i].attrs)[1].id = MaxExtId

\* C16: a section without msid, with an msid without appdata, or with a
\* track id the reply does not have comes back exactly as it went in.
C16_OthersUntouched ==
    exDone =>
      /\ Len(exOut) = Len(exIn)
      /\ \A i \in 1..Len(exIn) : ~Rewritten(exIn[i]) => exOut[i] = exIn[i]

C16_Witness ==
    /\ exDone
    /\ Len(exIn) = 2
    /\ exIn[1].msid.appdata = "v2" /\ ExtmapsOf(exIn[1].attrs) # <<>>
    /\ Rewritten(exIn[2]) /\ exOut[2] # exIn[2]
    /\ "v1" \in DOMAIN exMap

\* One DataSubscriber loop, its source and its egress channel
NextData ==
    \/ DsNew
    \/ DsPublish
    \/ DsPublisherDrop
    \/ DsChannelState
    \/ DsRecv
    \/ DsTransportClosed
    \/ DsSubscriberClosed
    \/ DsTransportClose
    \/ DsClose

SpecData == Init /\ [][NextData]_vars

\* the loop is scheduled and select! takes every branch that stays ready
FairSpecData ==
    SpecData /\ WF_vars(DsRecv) /\ WF_vars(DsTransportClosed)
             /\ WF_vars(DsSubscriberClosed)

\* the loop has taken one more message from its receiver
DsTook ==
    Len(dsSent') + Cardinality(dsSkipped') # Len(dsSent) + Cardinality(dsSkipped)

\* C17: a message the loop receives is written to the egress channel if and
\* only if the channel's ready state is Open at that moment; otherwise it is
\* skipped, and in both cases the loop goes on.
C17_OpenOnly ==
    [][/\ dsSent' # dsSent => DsTook
       /\ DsTook =>
            /\ dsPc' = "select"
            /\ IF dcState = "Open"
               THEN dsSent' = Append(dsSent, Head(dsQueue))
               ELSE dsSent' = dsSent]_vars

C17_Witness ==
    /\ dsPc = "select"
    /\ dsSkipped # {}
    /\ dsSent # <<>>
    /\ \E m \in dsSkipped : m < dsSent[Len(dsSent)]

\* C18 (as claimed): once the source DataPublisher is gone, the
\* DataSubscriber loop terminates.
C18_Original ==
    (dsPc = "select" /\ ~dpAlive) ~> (dsPc = "done")

\* Data channels published to the Router, its loop, and subscribing callers
NextRd ==
    \/ \E d \in DataPubs : DcOpen(d)
    \/ \E d \in DataPubs : OnOpenNew(d)
    \/ \E d \in DataPubs : OnOpenPublished(d)
    \/ \E d \in DataPubs : DcClose(d)
    \/ RouterDataStep
    \/ RouterClose
    \/ \E c \in Callers, kind \in {"subscribe", "data_subscribe"}, id \in DataPubs :
          RdCall(c, kind, id)
    \/ \E c \in Callers : RdAwait(c)

SpecRd == Init /\ [][NextRd]_vars

\* C19 (as claimed): a DataPublisher is in data_publisher_ids() once the
\* Router has handled its DataPublished and while its data channel is open,
\* and is no longer in it once the Router has handled its DataRemoved.
C19_Original ==
    \A d \in DataPubs :
        /\ ("DataPublished" \in rdDone[d] /\ dcLife[d] = "open")
              => d \in data_publisher_ids
        /\ "DataRemoved" \in rdDone[d] => d \notin data_publisher_ids

\* C20 (as claimed): no subscribe or data_subscribe call ends in a panic.
C20_Original ==
    \A c \in Callers : scPc[c] # "panic"

\* The Router's event loop under every order of sends and close() calls
NextLoop ==
    \/ \E e \in TransportEvents : LoopSend(e)
    \/ LoopClose
    \/ LoopStep

SpecLoop == Init /\ [][NextLoop]_vars

\* the position of the first Closed sent, or 0 before any close()
ClosedAt ==
    LET at == {n \in 1..Len(rlSent) : rlSent[n].kind = "Closed"} IN
    IF at = {} THEN 0 ELSE CHOOSE n \in at : \A m \in at : n <= m

\* the publishers map after the track events among the first n events sent
RECURSIVE MapAfter(_)
MapAfter(n) ==
    IF n = 0 THEN EmptyMap
    ELSE LET e == rlSent[n] m == MapAfter(n - 1) IN
         IF e.kind = "TrackPublished"
         THEN [i \in DOMAIN m \cup {e.id} |-> IF i = e.id THEN e.pub ELSE m[i]]
         ELSE IF e.kind = "TrackRemoved"
         THEN [i \in DOMAIN m \ {e.id} |-> m[i]]
         ELSE m

\* C21: the loop has ended exactly when it has handled the first Closed;
\* by then every event sent before that close() has been applied to the
\* map, and no event sent after it is ever handled.
C21_ClosedCutsOff ==
    /\ rlLoop = "ended" <=> (ClosedAt # 0 /\ ClosedAt \in Range(rlApplied))
    /\ \A i \in 1..Len(rlApplied) : ClosedAt # 0 => rlApplied[i] <= ClosedAt
    /\ rlLoop = "ended" =>
         /\ \A n \in 1..(ClosedAt - 1) : n \in Range(rlApplied)
         /\ rlMap = MapAfter(ClosedAt)

C21_Witness ==
    /\ rlLoop = "ended"
    /\ ClosedAt = 2
    /\ Len(rlSent) = 3
    /\ rlSent[1].kind = "TrackPublished"
    /\ rlSent[3].kind = "TrackPublished" /\ rlSent[3].id # rlSent[1].id
    /\ DOMAIN rlMap = {rlSent[1].id}

\* the last TrackPublished/TrackRemoved for id among the first n events sent
LastTrackEvent(id, n) ==
    LET at == {m \in 1..n : rlSent[m].id = id
                  /\ rlSent[m].kind \in {"TrackPublished", "TrackRemoved"}} IN
    IF at = {} THEN 0 ELSE CHOOSE m \in at : \A k \in at : k <= m

\* C22: events are handled one at a time in the order they were sent, and
\* the reply to a GetPublisher(id) is Some, with the publisher of the last
\* TrackPublished for id sent before it, exactly if the last track event
\* for id sent before it was a TrackPublished.
C22_SentOrder ==
    /\ \A i \in 1..Len(rlApplied) : rlApplied[i] = i
    /\ \A n \in DOMAIN rlReply :
         LET last == LastTrackEvent(rlSent[n].id, n - 1) IN
         IF last # 0 /\ rlSent[last].kind = "TrackPublished"
         THEN rlReply[n] = Some(rlSent[last].pub)
         ELSE rlReply[n] = None

C22_Witness ==
    \E n \in DOMAIN rlReply :
        /\ n = 4
        /\ rlReply[n].some
        /\ rlSent[1].kind = "TrackPublished" /\ rlSent[1].id = rlSent[n].id
        /\ rlSent[2].kind = "TrackRemoved" /\ rlSent[2].id = rlSent[n].id
        /\ rlSent[3].kind = "TrackPublished" /\ rlSent[3].id = rlSent[n].id
        /\ rlSent[3].pub # rlSent[1].pub

\* the loops suspended on an external await: the channel receives of
\* select!, write_rtp, the data channel's send
Suspended ==
    {RtpKid(k) : k \in {j \in RtpKids : rkPc[j] \in {"select", "write"}}}
    \cup {DataKid(d) : d \in {j \in DataKids : dkPc[j] \in {"select", "send"}}}

\* C23: no forwarding loop holds the guard of the closed_receiver mutex
\* while it is suspended in select! on a channel receive, in write_rtp or
\* in the data channel's send.
C23_Original == closedLock \cap Suspended = {}

\* the candidates of the add_ice_candidate calls in a log, in order
Added(ops) ==
    LET adds == SelectSeq(ops, LAMBDA o : o.op = "add_ice_candidate") IN
    [i \in 1..Len(adds) |-> adds[i].cand]

\* the names of the calls in a log
Names(ops) == [i \in 1..Len(ops) |-> ops[i].op]

\* whether sequence a is a prefix of sequence b
IsPrefix(a, b) == Len(a) <= Len(b) /\ \A i \in 1..Len(a) : a[i] = b[i]

\* the order of get_answer_for_offer with n pending candidates
GetAnswerOrder(n) ==
    <<"set_remote_description">> \o [i \in 1..n |-> "add_ice_candidate"]
    \o <<"create_answer", "set_local_description", "local_description">>

\* C24: get_answer(offer) sets the remote description, passes every pending
\* ICE candidate to the peer connection, creates the answer, sets the local
\* description and returns the local description, in this order; a step
\* that fails is the last one of the call, so that after a failed
\* set_remote_description nothing else runs and the call returns the error.
C24_AnswerOrder ==
    LET ops == answerOps["pub"] IN
    /\ IsPrefix(Names(ops), GetAnswerOrder(Len(Added(ops))))
    /\ gaPc \in {"answer", "local", "ret"} =>
          Added(ops) = pending_candidates["pub"]
    /\ \A i \in 1..(Len(ops) - 1) : ops[i].ok
    /\ (ops # <<>> /\ ~ops[1].ok) => gaPc = "idle" /\ gaResult = "Err"
    /\ (gaPc = "idle" /\ gaCalls > 0 /\ gaResult = "Ok") =>
          /\ Names(ops) = GetAnswerOrder(Len(Added(ops)))
          /\ ops[Len(ops)].ok

C24_Witness ==
    /\ gaPc = "idle"
    /\ gaResult = "Ok"
    /\ Len(pending_candidates["pub"]) = 2
    /\ Len(answerOps["pub"]) = 6

\* the order of set_answer with n pending candidates
SetAnswerOrder(n) ==
    <<"set_remote_description", "store_signaling_pending">>
    \o [i \in 1..n |-> "add_ice_candidate"]

\* C25: set_answer(answer) sets the remote description, then clears
\* signaling_pending, then passes the pending ICE candidates to the peer
\* connection; the flag is stored only after set_remote_description has
\* succeeded, and every pending candidate is passed before the call returns.
C25_SetAnswerOrder ==
    LET ops == answerOps["sub"] IN
    /\ IsPrefix(Names(ops), SetAnswerOrder(Len(Added(ops))))
    /\ \A i \in 1..Len(ops) :
          ops[i].op = "store_signaling_pending" =>
              /\ i = 2 /\ ops[1].ok
              /\ remoteDesc["sub"]
    /\ saPc = "flush" => Names(ops) = SetAnswerOrder(0)
    /\ saPc = "ret" =>
          /\ Added(ops) = pending_candidates["sub"]
          /\ Names(ops) = SetAnswerOrder(Len(pending_candidates["sub"]))

C25_Witness ==
    /\ saPc = "ret"
    /\ Len(pending_candidates["sub"]) = 2
    /\ Len(answerOps["sub"]) = 4
    /\ ~signaling_pending

\* One offer made by subscribe, data_subscribe or the negotiation-needed
\* callback, for every offer of the peer connection and reply of the Router
NextHand ==
    \/ \E path \in OfferPaths : OfferStart(path)
    \/ OfferCreate
    \/ OfferLocal
    \/ OfferFetch
    \/ OfferAdjust
    \/ OfferHand

SpecHand == Init /\ [][NextHand]_vars

\* C26: an offer returned by subscribe or data_subscribe, or passed to the
\* negotiation-needed handler, is the offer the peer connection created
\* after adjust_extmap with a reply to GetPublishersExtmap received by the
\* same call.
C26_HandedAdjusted ==
    \A i \in 1..Len(hoHanded) :
        /\ hoFetched
        /\ hoHanded[i] = adjust_extmap(hoRaw, hoReply)

C26_Witness ==
    /\ hoPath = "negotiation_needed"
    /\ Len(hoHanded) = 1
    /\ hoHanded[1] # hoRaw
    /\ hoLocal = hoHanded[1]

\* the positions, among the packets read, of those sent on the RTCP channel
Enqueued ==
    {n \in 1..Len(reIn) :
        /\ reIn[n].kind \in {"rr", "pli", "remb"}
        /\ n \notin reLost}

\* C27: the packets the writer loop has written and those still on the
\* RTCP channel are, together, the packets enqueued, each once and in the
\* order they were enqueued, so the writes are a prefix of that order; once
\* close() has sent the stop signal the loop eventually stops, and a
\* stopped loop writes nothing more.
C27_WriterOrder ==
    /\ [](/\ \A i, j \in 1..Len(RtcpSent) :
               i < j => RtcpSent[i].n < RtcpSent[j].n
          /\ {RtcpSent[i].n : i \in 1..Len(RtcpSent)} = Enqueued)
    /\ [][Len(ptWritten') > Len(ptWritten) =>
             /\ wlPc = "select"
             /\ ptWritten' = Append(ptWritten, Head(ptChan))
             /\ ptChan' = Tail(ptChan)]_vars
    /\ (ptClosed ~> wlPc = "stopped")
    /\ [][wlPc = "stopped" => wlPc' = "stopped" /\ ptWritten' = ptWritten]_vars

C27_Witness ==
    /\ ptClosed
    /\ wlPc = "stopped"
    /\ Len(ptWritten) = 1
    /\ Len(ptChan) = 1
    /\ ptHandle

\* the positions of the receiver reports, PLIs and REMBs among the packets read
Translated == {n \in 1..Len(reIn) : reIn[n].kind \in {"rr", "pli", "remb"}}

\* C28 (as claimed): the packets sent on the publisher's RTCP channel are
\* one per RR, PLI or REMB read, in the order read, and none for a packet of
\* another class.
C28_Original ==
    /\ \A i, j \in 1..Len(RtcpSent) : i < j => RtcpSent[i].n < RtcpSent[j].n
    /\ {RtcpSent[i].n : i \in 1..Len(RtcpSent)} = Translated

\* C28 (amended): the packets on the publisher's RTCP channel are one per
\* RR, PLI or REMB read while the channel had its receiver, of the class of
\* the packet read and in the order read; none is there for a packet of
\* another class, and one read after the receiver was dropped is lost.
C28_Amended ==
    /\ \A i, j \in 1..Len(RtcpSent) : i < j => RtcpSent[i].n < RtcpSent[j].n
    /\ {RtcpSent[i].n : i \in 1..Len(RtcpSent)} = Translated \ reLost
    /\ \A i \in 1..Len(RtcpSent) :
          RtcpSent[i].pkt.kind = reIn[RtcpSent[i].n].kind
    /\ reLost \subseteq Translated
    /\ reLost # {} => ~RtcpReceiverAlive
    /\ \A n \in reLost, i \in 1..Len(RtcpSent) : RtcpSent[i].n < n

C28_Witness ==
    /\ Len(reIn) = 2
    /\ reIn[1].kind = "pli"
    /\ reIn[2].kind = "rr"
    /\ reLost = {2}
    /\ Len(ptWritten) = 1
    /\ ptWritten[1].n = 1

\* The rewrite of one media section against every list of the publisher
NextDup == AdjustListed

SpecDup == Init /\ [][NextDup]_vars

\* the first place of uri in the publisher's list, 0 if it has none
FirstEntry(uri) ==
    LET at == {k \in 1..Len(fdList) : fdList[k].uri = uri} IN
    IF at = {} THEN 0 ELSE CHOOSE k \in at : \A j \in at : k <= j

\* C29: the extmaps left by the rewrite are those of the section whose URI
\* the publisher's list has, in the section's order, each with the id of the
\* first entry of the list for its URI, whatever later entries say.
C29_FirstEntry ==
    fdDone =>
      LET was == SelectSeq(ExtmapsOf(fdIn.attrs),
                           LAMBDA a : FirstEntry(a.url) # 0)
          left == ExtmapsOf(fdOut.attrs) IN
      /\ Len(left) = Len(was)
      /\ \A i \in 1..Len(left) :
            /\ left[i].url = was[i].url
            /\ left[i].id = fdList[FirstEntry(was[i].url)].id

C29_Witness ==
    /\ fdDone
    /\ Len(fdList) = 3
    /\ fdList[1].uri # fdList[2].uri
    /\ fdList[3].uri = fdList[2].uri
    /\ fdList[3].id # fdList[2].id
    /\ \E i \in 1..Len(ExtmapsOf(fdOut.attrs)) :
          /\ ExtmapsOf(fdOut.attrs)[i].url = fdList[2].uri
          /\ ExtmapsOf(fdOut.attrs)[i].id = fdList[2].id
          /\ ExtmapsOf(fdIn.attrs)[i].id = fdList[3].id

\* C30: a negotiation-needed callback that reaches its check after the peer
\* connection was dropped, or while its connection state is Closed, returns
\* there: the step leaves signaling_pending and the offers handed to the
\* handler as they were, and the callback never hands an offer afterwards.
C30_GoneNoOffer ==
    /\ [][\A n \in NNs :
            (pcState # "open" /\ nnPc[n] = "check" /\ nnPc'[n] # "check") =>
                /\ nnPc'[n] = "noop"
                /\ signaling_pending' = signaling_pending
                /\ nnOffers' = nnOffers
                /\ inflight' = inflight]_vars
    /\ [][\A n \in NNs : nnPc[n] = "noop" =>
            nnPc'[n] = "noop" /\ nnOffers'[n] = nnOffers[n]]_vars
    /\ [](\A n \in NNs : nnPc[n] = "noop" => nnOffers[n] = 0 /\ pcState # "open")

C30_Witness ==
    \E n \in NNs :
        /\ nnPc[n] = "noop"
        /\ pcState = "dropped"
        /\ ~signaling_pending
        /\ \E s \in SubCalls : sbResult[s] = "Ok"

\* C31 (as claimed): a subscribe call that returns an error after it has
\* stored true to signaling_pending (subscribe_track or create_offer
\* failed) does not leave the flag set when it returns.
C31_Original ==
    [][\A s \in SubCalls :
          (sbPc[s] \in {"attach", "offer"} /\ sbPc'[s] = "done"
             /\ sbResult'[s] = "Err")
              => ~signaling_pending']_vars

\* One PublishTransport and one SubscribeTransport of the same Router: the
\* application subscribes to a track after publish() has returned it
NextPubSub ==
    \/ \E p \in Pubs, id \in TrackIds : OnTrackRaise(p, 1, id)
    \/ \E p \in Pubs : OnTrackStep(p)
    \/ \E p \in Pubs : IngressEnd(p)
    \/ \E c \in Callers, id \in TrackIds : PublishCall(c, 1, id)
    \/ \E c \in Callers : PublishStep(c)
    \/ RouterStep
    \/ \E s \in SubCalls, id \in TrackIds : SubscribeAfterPublish(s, id)
    \/ \E s \in SubCalls : SubscribeStep(s)

SpecPubSub == Init /\ [][NextPubSub]_vars

\* C32 (as claimed): a subscribe(track_id) started after publish(track_id)
\* has returned a Publisher fails with TrackNotFoundError only if a
\* TrackRemoved for that track id has been sent.
C32_Original ==
    \A s \in SubCalls :
        sbResult[s] = "TrackNotFoundError" =>
            \E i \in 1..Len(sentLog) :
                /\ sentLog[i][1] = "TrackRemoved"
                /\ pubId[sentLog[i][2]] = sbWant[s]

\* One SubscribeTransport with one subscribe() call, one data_subscribe()
\* call and set_answer() calls
NextDsig ==
    \/ OnTrackRaise(1, 1, "v1")
    \/ OnTrackStep(1)
    \/ IngressEnd(1)
    \/ RouterStep
    \/ \E id \in TrackIds : SubscribeCall(1, id)
    \/ SubscribeStep(1)
    \/ DataSubscribeCall
    \/ DataSubscribeStep
    \/ SetAnswerCall
    \/ SetAnswerStep

SpecDsig == Init /\ [][NextDsig]_vars

\* C33 (as claimed): data_subscribe generates its offer only with
\* signaling_pending claimed by itself, so never while an offer of the same
\* transport still waits for its answer.
C33_Original ==
    [][dqOffers' # dqOffers => inflight = 0]_vars

\* the call that sets the remote description of transport t is not running
AnswerIdle(t) == IF t = "pub" THEN gaPc = "idle" ELSE saPc = "idle"

\* C34 (as claimed): once the remote description of a transport is set, the
\* call that set it has returned and add_ice_candidate has returned Ok, the
\* candidate has been passed to the peer connection.
C34_Original ==
    \A c \in Cands :
        (/\ icePc[c] \in {"parked", "added"}
         /\ iceResult[c] = "Ok"
         /\ remoteDesc[iceTr[c]]
         /\ AnswerIdle(iceTr[c]))
            => pcCands[c] >= 1

\* C35 (as claimed): a candidate parked in the pending buffer is passed to
\* the peer connection at most once, however often set_answer or get_answer
\* is called on the transport.
C35_Original ==
    \A c \in Cands : icePc[c] = "parked" => pcCands[c] <= 1

\* the Router has handled the TrackPublished of publisher p
Registered(p) ==
    /\ otPc[p] \in {"await", "done"}
    /\ \A i \in 1..Len(events) : events[i] # TrackPublished(p)

\* C36 (as claimed): once its TrackPublished has been handled,
\* publisher_ids() contains the id of every Publisher whose ingress loop is
\* still running, also when an earlier Publisher with the same track id
\* terminates.
C36_Original ==
    \A p \in Pubs :
        (Registered(p) /\ ingress[p] = "running") => pubId[p] \in publisher_ids

\* the on_track handler of p has sent its Publisher on published_sender
Announced(p) == otPc[p] \in {"register", "await", "done"}

\* C37 (as claimed): when publish(a) and publish(b) have been called on one
\* PublishTransport for different track ids and a Publisher has been
\* announced for each id, both calls eventually return.
C37_Original ==
    \A c, d \in Callers : \A p, q \in Pubs :
        (/\ c # d /\ pbPc[c] # "idle" /\ pbPc[d] # "idle"
         /\ pbWant[c] # pbWant[d]
         /\ Announced(p) /\ pubId[p] = pbWant[c]
         /\ Announced(q) /\ pubId[q] = pbWant[d])
            ~> (pbPc[c] = "returned" /\ pbPc[d] = "returned")

\* Two data loops of one SubscribeTransport with a source each
NextPeer ==
    \/ \E d \in DataLoops : SubscribeData(d)
    \/ \E d \in DataLoops : PublisherMessage(d)
    \/ \E d \in DataLoops : DataEventLoopLock(d)
    \/ \E d \in DataLoops :
          \E b \in {"transport_closed", "subscriber_closed", "message"} :
              DataEventLoopBranch(d, b)
    \/ \E d \in DataLoops : DataEventLoopSend(d)
    \/ \E d \in DataLoops : DataSubscriberCloseOf(d)
    \/ TransportCloseSend

SpecPeer == Init /\ [][NextPeer]_vars

\* C38 (as claimed): with two DataSubscribers on one SubscribeTransport, a
\* loop whose own source has a message available is never kept waiting for
\* the guard by another loop that sits in select! with nothing to receive.
C38_Original ==
    \A d \in DataLoops :
        (dlPc[d] = "lock" /\ dlQueue[d] > 0) =>
            ~\E e \in DataLoops \ {d} :
                /\ dlPc[e] = "select"
                /\ e \in dlGuard
                /\ DataEventLoopReady(e) = {}

\* C39 (as claimed): every track for which on_track is raised is eventually
\* announced to the publish() waiters and its TrackPublished sent, whether
\* or not an earlier track of the transport ever closes.
C39_Original ==
    \A p \in Pubs :
        (otPc[p] = "lock") ~>
            (/\ otPc[p] \in {"await", "done"}
             /\ \E i \in 1..Len(sentLog) : sentLog[i] = <<"TrackPublished", p>>)

\* One SubscribeTransport that is closed while calls and callbacks wait: every
\* started call, callback and handler keeps running; a set_answer() call is
\* possible at any time but the application need not make one
NextClose ==
    \/ OnTrackRaise(1, 1, "v1")
    \/ OnTrackStep(1)
    \/ IngressEnd(1)
    \/ RouterStep
    \/ \E s \in SubCalls : SubscribeCall(s, "v1")
    \/ \E s \in SubCalls : SubscribeStep(s)
    \/ \E n \in NNs : NNFire(n)
    \/ \E n \in NNs : NNStep(n)
    \/ SetAnswerCall
    \/ SetAnswerStep
    \/ SubscribeTransportClose

FairSpecClose ==
    /\ Init
    /\ [][NextClose]_vars
    /\ WF_vars(OnTrackStep(1))
    /\ WF_vars(RouterStep)
    /\ \A s \in SubCalls : WF_vars(SubscribeStep(s))
    /\ \A n \in NNs : WF_vars(NNStep(n))
    /\ WF_vars(SetAnswerStep)

\* C40 (as claimed): once the SubscribeTransport is closed, every subscribe
\* call and every negotiation-needed callback that waits for signalling to
\* become idle eventually stops waiting.
C40_Original ==
    /\ \A s \in SubCalls :
          (pcState = "closed" /\ sbPc[s] = "wait") ~> (sbPc[s] # "wait")
    /\ \A n \in NNs :
          (pcState = "closed" /\ nnPc[n] = "wait") ~> (nnPc[n] # "wait")

====
